---- MODULE Spec2Model ----
(***************************************************************************)
(* A model of the `one-var` rule (the variable-declaration consolidation   *)
(* rule) as it stands in src/eslint/lib/rules/no-undefined.js: the policy  *)
(* derived from the option, the scope stacks, the four checks of a         *)
(* declaration statement, and the join and split fixers on the text.       *)
(*                                                                         *)
(* The rule is driven by the host's visitor: one action per visitor hook.  *)
(* The AST the host walks is an input: the model keeps the walker's        *)
(* position in it (`path`, one frame per open region) so that the          *)
(* declaration statements handed to the rule are those a parser can        *)
(* produce at that position.                                               *)
(***************************************************************************)
EXTENDS Integers, Sequences, FiniteSets, TLC

\* ------------------------------------------------------------------ bounds

\* The most regions (Program included) open at once.
MaxDepth == 2
\* The most declarators of one declaration statement.
MaxDecls == 2
\* The most declaration statements of one program.
MaxStatements == 2

\* ------------------------------------------------------- the configuration

MODE_ALWAYS == "always"
MODE_NEVER == "never"
MODE_CONSECUTIVE == "consecutive"

Modes == {MODE_ALWAYS, MODE_NEVER, MODE_CONSECUTIVE}

\* A property of the option object that is not there reads `undefined`.
Undefined == "undefined"

\* The kinds the rule has a policy for, and the kinds a parser produces.
PolicyKinds == {"var", "let", "const"}
NodeKinds == PolicyKinds \cup {"using"}

\* context.options[0]: nothing, a string, or an object. `shape` is its
\* typeof; the fields of an object that are absent hold Undefined, and
\* `hasInitialized` / `hasUninitialized` are Object.hasOwn of the two fields.
NoOption ==
    [shape |-> "none", str |-> Undefined, separateRequires |-> Undefined,
     var |-> Undefined, let |-> Undefined, const |-> Undefined,
     hasInitialized |-> FALSE, initialized |-> Undefined,
     hasUninitialized |-> FALSE, uninitialized |-> Undefined]

StringOptions == {[NoOption EXCEPT !.shape = "string", !.str = m] : m \in Modes}

ObjectOptions ==
    {[NoOption EXCEPT !.shape = "object", !.separateRequires = s,
                      !.var = v, !.let = l, !.const = c,
                      !.hasInitialized = (i # Undefined), !.initialized = i,
                      !.hasUninitialized = (u # Undefined), !.uninitialized = u] :
        s \in {Undefined, "true", "false"},
        v \in Modes \cup {Undefined}, l \in Modes \cup {Undefined},
        c \in Modes \cup {Undefined},
        i \in Modes \cup {Undefined}, u \in Modes \cup {Undefined}}

AllOptions == {NoOption} \cup StringOptions \cup ObjectOptions

\* meta.schema: oneOf [a mode string, an object of separateRequires / var /
\* let / const, an object of initialized / uninitialized], each object with
\* additionalProperties: false. oneOf holds when exactly one branch matches,
\* so the empty object (which matches both object branches) is refused.
SchemaKindObject(o) ==
    o.shape = "object" /\ ~o.hasInitialized /\ ~o.hasUninitialized

SchemaInitObject(o) ==
    /\ o.shape = "object"
    /\ o.separateRequires = Undefined
    /\ o.var = Undefined /\ o.let = Undefined /\ o.const = Undefined

SchemaValid(o) ==
    \/ o.shape = "none"
    \/ o.shape = "string"
    \/ (SchemaKindObject(o) /\ ~SchemaInitObject(o))
    \/ (SchemaInitObject(o) /\ ~SchemaKindObject(o))

ValidOptions == {o \in AllOptions : SchemaValid(o)}

\* The options the walks are run under: every valid option but, among the
\* objects of per-kind modes, only those that name no kind, `var` alone, or
\* all three kinds with one mode, and that do not spell out
\* `separateRequires: false`. Every policy a kind can have under a valid
\* option is the policy of `var` under one of these.
WalkOptions ==
    {o \in ValidOptions :
        SchemaKindObject(o) =>
            /\ o.separateRequires # "false"
            /\ o.let = o.const
            /\ o.let \in {Undefined, o.var}}

\* `options` before create() has filled it: {}.
EmptyOptions ==
    [separateRequires |-> FALSE,
     kinds |-> [k \in PolicyKinds |->
                   [uninitialized |-> Undefined, initialized |-> Undefined]],
     set |-> {}]

\* KindPolicy where a kind the option leaves out gets the default mode.
KindPolicyDefaulted(m) ==
    IF m = Undefined
    THEN [uninitialized |-> MODE_ALWAYS, initialized |-> MODE_ALWAYS]
    ELSE [uninitialized |-> m, initialized |-> m]

\* options.var = { uninitialized: m, initialized: m } and the like.
KindPolicy(m) == [uninitialized |-> m, initialized |-> m]

\* OptionsOfObject with the per-kind value taking precedence over the
\* `initialized` / `uninitialized` fields.
OptionsOfObjectKindFirst(o) ==
    LET field(k) == CASE k = "var" -> o.var [] k = "let" -> o.let [] OTHER -> o.const
    IN [separateRequires |-> (o.separateRequires = "true"),
        kinds |-> [k \in PolicyKinds |->
                     [uninitialized |-> IF o.hasUninitialized /\ field(k) = Undefined
                                        THEN o.uninitialized ELSE field(k),
                      initialized |-> IF o.hasInitialized /\ field(k) = Undefined
                                      THEN o.initialized ELSE field(k)]],
        set |-> PolicyKinds]

\* The `typeof mode === "object"` branch of create().
OptionsOfObject(o) ==
    LET perKind == [k \in PolicyKinds |->
                       KindPolicy(CASE k = "var" -> o.var
                                    [] k = "let" -> o.let
                                    [] OTHER -> o.const)]
        withUninit == IF o.hasUninitialized
                      THEN [k \in PolicyKinds |->
                              [perKind[k] EXCEPT !.uninitialized = o.uninitialized]]
                      ELSE perKind
        withInit == IF o.hasInitialized
                    THEN [k \in PolicyKinds |->
                            [withUninit[k] EXCEPT !.initialized = o.initialized]]
                    ELSE withUninit
    IN [separateRequires |-> (o.separateRequires = "true"),
        kinds |-> withInit,
        set |-> PolicyKinds]

\* create(): `mode = context.options[0] || MODE_ALWAYS`, then the policy of
\* each kind. `set` holds the kinds for which options[kind] is an object.
DeriveOptions(o) ==
    LET mode == IF o.shape = "none" THEN MODE_ALWAYS ELSE o.str
    IN IF o.shape \in {"none", "string"}
       THEN [separateRequires |-> FALSE,
             kinds |-> [k \in PolicyKinds |-> KindPolicy(mode)],
             set |-> PolicyKinds]
       ELSE OptionsOfObject(o)

\* ------------------------------------------------------- the scope stacks

\* { initialized: false, uninitialized: false }; `required`, which
\* recordTypes adds, reads falsy until then.
FreshRecord == [initialized |-> FALSE, uninitialized |-> FALSE, required |-> FALSE]

FreshBlock == [let |-> FreshRecord, const |-> FreshRecord]

\* startBlock(): blockStack.push({ let: {...}, const: {...} }).
startBlock(st) ==
    [st EXCEPT !.blockStack = Append(@, FreshBlock)]

\* startFunction(): functionStack.push({...}); startBlock().
startFunction(st) ==
    startBlock([st EXCEPT !.functionStack = Append(@, FreshRecord)])

\* Array.prototype.pop: the array without its last element (an empty array
\* stays empty).
Pop(s) == IF Len(s) = 0 THEN s ELSE SubSeq(s, 1, Len(s) - 1)

\* endBlock(): blockStack.pop().
endBlock(st) ==
    [st EXCEPT !.blockStack = Pop(@)]

\* endFunction without its call of endBlock.
endFunctionOnly(st) ==
    [st EXCEPT !.functionStack = Pop(@)]

\* endFunction(): functionStack.pop(); endBlock().
endFunction(st) ==
    endBlock([st EXCEPT !.functionStack = Pop(@)])

\* getCurrentScope reading the bottoms of the stacks ([0]) for their tops
\* (.at(-1)).
getCurrentScopeRefBottom(statementType, st) ==
    CASE statementType = "var" -> <<"function", 1, "">>
      [] statementType = "let" -> <<"block", 1, "let">>
      [] statementType = "const" -> <<"block", 1, "const">>
      [] OTHER -> <<"undefined", 0, "">>

\* Where getCurrentScope(statementType) points: the record the caller reads
\* and, through the reference, writes. <<stack, index, field>>.
getCurrentScopeRef(statementType, st) ==
    CASE statementType = "var" -> <<"function", Len(st.functionStack), "">>
      [] statementType = "let" -> <<"block", Len(st.blockStack), "let">>
      [] statementType = "const" -> <<"block", Len(st.blockStack), "const">>
      [] OTHER -> <<"undefined", 0, "">>

\* The record a reference points to.
Deref(ref, st) ==
    CASE ref[1] = "function" -> st.functionStack[ref[2]]
      [] ref[3] = "let" -> st.blockStack[ref[2]].let
      [] OTHER -> st.blockStack[ref[2]].const

\* getCurrentScope(statementType).
getCurrentScope(statementType, st) ==
    Deref(getCurrentScopeRef(statementType, st), st)

\* Store where the `let` and the `const` field of a block record are one
\* object.
StoreSharedRecord(ref, st, rec) ==
    CASE ref[1] = "function" -> [st EXCEPT !.functionStack[ref[2]] = rec]
      [] OTHER -> [st EXCEPT !.blockStack[ref[2]] = [let |-> rec, const |-> rec]]

\* An assignment to a field of the record a reference points to.
Store(ref, st, rec) ==
    CASE ref[1] = "function" -> [st EXCEPT !.functionStack[ref[2]] = rec]
      [] ref[3] = "let" -> [st EXCEPT !.blockStack[ref[2]].let = rec]
      [] OTHER -> [st EXCEPT !.blockStack[ref[2]].const = rec]

\* ------------------------------------------------------- the classifier

\* A declarator: "U" has no initializer (init === null), "R" is initialized
\* by a call of `require`, "I" by anything else.
Declarators == {"U", "I", "R"}

\* isRequire(decl).
isRequire(decl) == decl = "R"

\* declarations.some(isRequire) and declarations.every(isRequire).
someIsRequire(declarations) == \E i \in 1..Len(declarations) : isRequire(declarations[i])

everyIsRequire(declarations) == \A i \in 1..Len(declarations) : isRequire(declarations[i])

\* countDeclarations(declarations).
countDeclarations(declarations) ==
    [uninitialized |-> Cardinality({i \in 1..Len(declarations) : declarations[i] = "U"}),
     initialized |-> Cardinality({i \in 1..Len(declarations) : declarations[i] # "U"})]

\* recordType without the separateRequires branch: a require call counts
\* as any initializer.
recordTypeNoRequires(opts, statementType, decl, currentScope) ==
    IF decl = "U"
    THEN IF statementType \in opts.set
            /\ opts.kinds[statementType].uninitialized = MODE_ALWAYS
         THEN [currentScope EXCEPT !.uninitialized = TRUE]
         ELSE currentScope
    ELSE IF statementType \in opts.set
            /\ opts.kinds[statementType].initialized = MODE_ALWAYS
         THEN [currentScope EXCEPT !.initialized = TRUE]
         ELSE currentScope

\* recordType without the tests of the modes.
recordTypeAnyMode(opts, statementType, decl, currentScope) ==
    IF decl = "U"
    THEN [currentScope EXCEPT !.uninitialized = TRUE]
    ELSE IF opts.separateRequires /\ isRequire(decl)
         THEN [currentScope EXCEPT !.required = TRUE]
         ELSE [currentScope EXCEPT !.initialized = TRUE]

\* One turn of recordTypes' loop, on declarations[i].
recordType(opts, statementType, decl, currentScope) ==
    IF decl = "U"
    THEN IF statementType \in opts.set
            /\ opts.kinds[statementType].uninitialized = MODE_ALWAYS
         THEN [currentScope EXCEPT !.uninitialized = TRUE]
         ELSE currentScope
    ELSE IF statementType \in opts.set
            /\ opts.kinds[statementType].initialized = MODE_ALWAYS
         THEN IF opts.separateRequires /\ isRequire(decl)
              THEN [currentScope EXCEPT !.required = TRUE]
              ELSE [currentScope EXCEPT !.initialized = TRUE]
         ELSE currentScope

RECURSIVE recordTypesFrom(_, _, _, _, _)
recordTypesFrom(opts, statementType, declarations, currentScope, i) ==
    IF i > Len(declarations)
    THEN currentScope
    ELSE recordTypesFrom(opts, statementType, declarations,
                         recordType(opts, statementType, declarations[i], currentScope),
                         i + 1)

\* recordTypes(statementType, declarations, currentScope): the record after.
recordTypes(opts, statementType, declarations, currentScope) ==
    recordTypesFrom(opts, statementType, declarations, currentScope, 1)

\* hasOnlyOneStatement without its first test, the one of both modes being
\* ALWAYS: each bucket is then judged on its own flag only.
hasOnlyOneStatementPerBucket(opts, statementType, declarations, st) ==
    LET declarationCounts == countDeclarations(declarations)
        currentOptions == IF statementType \in opts.set
                          THEN opts.kinds[statementType]
                          ELSE KindPolicy(Undefined)
        ref == getCurrentScopeRef(statementType, st)
        currentScope == Deref(ref, st)
        hasRequires == someIsRequire(declarations)
    IN IF /\ declarationCounts.uninitialized > 0
          /\ currentOptions.uninitialized = MODE_ALWAYS
          /\ currentScope.uninitialized
       THEN [ret |-> FALSE, st |-> st]
       ELSE IF /\ declarationCounts.initialized > 0
               /\ currentOptions.initialized = MODE_ALWAYS
               /\ currentScope.initialized
               /\ ~hasRequires
       THEN [ret |-> FALSE, st |-> st]
       ELSE IF currentScope.required /\ hasRequires
       THEN [ret |-> FALSE, st |-> st]
       ELSE [ret |-> TRUE,
             st |-> Store(ref, st,
                          recordTypes(opts, statementType, declarations, currentScope))]

\* hasOnlyOneStatement with `every` for the `some` of hasRequires.
hasOnlyOneStatementEveryRequire(opts, statementType, declarations, st) ==
    LET declarationCounts == countDeclarations(declarations)
        currentOptions == IF statementType \in opts.set
                          THEN opts.kinds[statementType]
                          ELSE KindPolicy(Undefined)
        ref == getCurrentScopeRef(statementType, st)
        currentScope == Deref(ref, st)
        hasRequires == everyIsRequire(declarations)
    IN IF /\ currentOptions.uninitialized = MODE_ALWAYS
          /\ currentOptions.initialized = MODE_ALWAYS
          /\ (currentScope.uninitialized \/ currentScope.initialized)
          /\ ~hasRequires
       THEN [ret |-> FALSE, st |-> st]
       ELSE IF /\ declarationCounts.uninitialized > 0
               /\ currentOptions.uninitialized = MODE_ALWAYS
               /\ currentScope.uninitialized
       THEN [ret |-> FALSE, st |-> st]
       ELSE IF /\ declarationCounts.initialized > 0
               /\ currentOptions.initialized = MODE_ALWAYS
               /\ currentScope.initialized
               /\ ~hasRequires
       THEN [ret |-> FALSE, st |-> st]
       ELSE IF currentScope.required /\ hasRequires
       THEN [ret |-> FALSE, st |-> st]
       ELSE [ret |-> TRUE,
             st |-> Store(ref, st,
                          recordTypes(opts, statementType, declarations, currentScope))]

\* hasOnlyOneStatement without its last test, the one of the `required` flag.
hasOnlyOneStatementNoRequired(opts, statementType, declarations, st) ==
    LET declarationCounts == countDeclarations(declarations)
        currentOptions == IF statementType \in opts.set
                          THEN opts.kinds[statementType]
                          ELSE KindPolicy(Undefined)
        ref == getCurrentScopeRef(statementType, st)
        currentScope == Deref(ref, st)
        hasRequires == someIsRequire(declarations)
    IN IF /\ currentOptions.uninitialized = MODE_ALWAYS
          /\ currentOptions.initialized = MODE_ALWAYS
          /\ (currentScope.uninitialized \/ currentScope.initialized)
          /\ ~hasRequires
       THEN [ret |-> FALSE, st |-> st]
       ELSE IF /\ declarationCounts.uninitialized > 0
               /\ currentOptions.uninitialized = MODE_ALWAYS
               /\ currentScope.uninitialized
       THEN [ret |-> FALSE, st |-> st]
       ELSE IF /\ declarationCounts.initialized > 0
               /\ currentOptions.initialized = MODE_ALWAYS
               /\ currentScope.initialized
               /\ ~hasRequires
       THEN [ret |-> FALSE, st |-> st]
       ELSE [ret |-> TRUE,
             st |-> Store(ref, st,
                          recordTypes(opts, statementType, declarations, currentScope))]

\* hasOnlyOneStatement(statementType, declarations): its result and the
\* stacks after it (it writes the current record through recordTypes).
hasOnlyOneStatement(opts, statementType, declarations, st) ==
    LET declarationCounts == countDeclarations(declarations)
        currentOptions == IF statementType \in opts.set
                          THEN opts.kinds[statementType]
                          ELSE KindPolicy(Undefined)
        ref == getCurrentScopeRef(statementType, st)
        currentScope == Deref(ref, st)
        hasRequires == someIsRequire(declarations)
    IN IF /\ currentOptions.uninitialized = MODE_ALWAYS
          /\ currentOptions.initialized = MODE_ALWAYS
          /\ (currentScope.uninitialized \/ currentScope.initialized)
          /\ ~hasRequires
       THEN [ret |-> FALSE, st |-> st]
       ELSE IF /\ declarationCounts.uninitialized > 0
               /\ currentOptions.uninitialized = MODE_ALWAYS
               /\ currentScope.uninitialized
       THEN [ret |-> FALSE, st |-> st]
       ELSE IF /\ declarationCounts.initialized > 0
               /\ currentOptions.initialized = MODE_ALWAYS
               /\ currentScope.initialized
               /\ ~hasRequires
       THEN [ret |-> FALSE, st |-> st]
       ELSE IF currentScope.required /\ hasRequires
       THEN [ret |-> FALSE, st |-> st]
       ELSE [ret |-> TRUE,
             st |-> Store(ref, st,
                          recordTypes(opts, statementType, declarations, currentScope))]

\* ------------------------------------------------------- the AST, as consumed

\* The node types whose `body` is an array of statements (ESTree); a
\* SwitchCase keeps its statements in `consequent`, the loops and the
\* labelled statement keep one statement in `body`.
BodyArrayParents == {"Program", "BlockStatement", "StaticBlock"}

\* astUtils.STATEMENT_LIST_PARENTS.
STATEMENT_LIST_PARENTS == {"Program", "BlockStatement", "StaticBlock", "SwitchCase"}

\* No sibling before a node; a sibling that is not a declaration.
NoNode == [type |-> "none", kind |-> Undefined, declarations |-> <<>>]
OtherNode == [type |-> "other", kind |-> Undefined, declarations |-> <<>>]

DeclarationNode(kind, declarations) ==
    [type |-> "VariableDeclaration", kind |-> kind, declarations |-> declarations]

\* isInStatementList taking an `if` for a statement list.
isInStatementListOrIf(parentType) ==
    parentType \in STATEMENT_LIST_PARENTS \cup {"IfStatement"}

\* isInStatementList(node), given node.parent.type.
isInStatementList(parentType) == parentType \in STATEMENT_LIST_PARENTS

\* A reported diagnostic: its messageId, the check that reported it and its
\* `fix` property ("none": the report has none; "null": the fixer refused).
Diag(messageId, check, fix) == [messageId |-> messageId, check |-> check, fix |-> fix]

\* joinDeclarations(declarations): a fixer function, always.
joinDeclarations(node) == "join"

\* joinEdits looking for the previous statement in any statement list, that
\* of a switch case too.
joinEditsAnyList(node) ==
    IF /\ node.role = "list"
       /\ node.prev.type = "VariableDeclaration"
       /\ node.prev.kind = node.kind
    THEN 2
    ELSE 0

\* How many edits the fixer of joinDeclarations yields for a statement: `body`
\* is declaration.parent.parent.body when that is an array, else []; with a
\* previousNode in it whose kind is the statement's keyword the fixer pushes
\* an edit of the token before the keyword and one of the keyword, else none.
joinEdits(node) ==
    LET hasBody == node.parentType \in {"Program", "BlockStatement", "StaticBlock"}
        hasPreviousNode == hasBody /\ node.role = "list" /\ node.prev.type # "none"
    IN IF hasPreviousNode /\ node.prev.kind = node.kind THEN 2 ELSE 0

\* splitDeclarations(declaration): null outside a statement list, else a
\* fixer function. An exported declaration is judged by its export's parent.
splitDeclarations(node) ==
    IF ~isInStatementList(IF node.parentType = "ExportNamedDeclaration"
                          THEN node.grandparentType
                          ELSE node.parentType)
    THEN "null"
    ELSE "split"

\* ------------------------------------------------------- the policy evaluator

\* requiresCheck without its test of the separateRequires option.
requiresCheckAnyOption(opts, node) ==
    LET declarations == node.declarations
        mixedRequires == someIsRequire(declarations) /\ ~everyIsRequire(declarations)
    IN IF opts.kinds[node.kind].initialized = MODE_ALWAYS /\ mixedRequires
       THEN <<Diag("splitRequires", "requires", "none")>>
       ELSE <<>>

\* checkVariableDeclaration, the separateRequires part.
requiresCheck(opts, node) ==
    LET declarations == node.declarations
        mixedRequires == someIsRequire(declarations) /\ ~everyIsRequire(declarations)
    IN IF /\ opts.kinds[node.kind].initialized = MODE_ALWAYS
          /\ opts.separateRequires
          /\ mixedRequires
       THEN <<Diag("splitRequires", "requires", "none")>>
       ELSE <<>>

\* nodeIndex > 0: parent.body is a non-empty array and the node is not its
\* first element.
hasPreviousInBody(node) ==
    node.parentType \in BodyArrayParents /\ node.prev.type # "none"

\* consecutiveCheck with the bucket branches tried before the generic one.
consecutiveCheckBucketsFirst(opts, node) ==
    LET type == node.kind
        declarations == node.declarations
        declarationCounts == countDeclarations(declarations)
        previousNode == node.prev
        declarationsWithPrevious == declarations \o previousNode.declarations
        previousDeclCounts == countDeclarations(previousNode.declarations)
    IN IF /\ hasPreviousInBody(node)
          /\ previousNode.type = "VariableDeclaration"
          /\ previousNode.kind = type
          /\ ~(/\ someIsRequire(declarationsWithPrevious)
               /\ ~everyIsRequire(declarationsWithPrevious))
       THEN IF /\ opts.kinds[type].initialized = MODE_CONSECUTIVE
               /\ declarationCounts.initialized > 0
               /\ previousDeclCounts.initialized > 0
            THEN <<Diag("combineInitialized", "consecutive", joinDeclarations(node))>>
            ELSE IF /\ opts.kinds[type].uninitialized = MODE_CONSECUTIVE
                    /\ declarationCounts.uninitialized > 0
                    /\ previousDeclCounts.uninitialized > 0
            THEN <<Diag("combineUninitialized", "consecutive", joinDeclarations(node))>>
            ELSE IF /\ opts.kinds[type].initialized = MODE_CONSECUTIVE
                    /\ opts.kinds[type].uninitialized = MODE_CONSECUTIVE
            THEN <<Diag("combine", "consecutive", joinDeclarations(node))>>
            ELSE <<>>
       ELSE <<>>

\* consecutiveCheck without the comparison of the two statements' kinds.
consecutiveCheckAnyKind(opts, node) ==
    LET type == node.kind
        declarations == node.declarations
        declarationCounts == countDeclarations(declarations)
        previousNode == node.prev
        declarationsWithPrevious == declarations \o previousNode.declarations
        previousDeclCounts == countDeclarations(previousNode.declarations)
    IN IF /\ hasPreviousInBody(node)
          /\ previousNode.type = "VariableDeclaration"
          /\ ~(/\ someIsRequire(declarationsWithPrevious)
               /\ ~everyIsRequire(declarationsWithPrevious))
       THEN IF /\ opts.kinds[type].initialized = MODE_CONSECUTIVE
               /\ opts.kinds[type].uninitialized = MODE_CONSECUTIVE
            THEN <<Diag("combine", "consecutive", joinDeclarations(node))>>
            ELSE IF /\ opts.kinds[type].initialized = MODE_CONSECUTIVE
                    /\ declarationCounts.initialized > 0
                    /\ previousDeclCounts.initialized > 0
            THEN <<Diag("combineInitialized", "consecutive", joinDeclarations(node))>>
            ELSE IF /\ opts.kinds[type].uninitialized = MODE_CONSECUTIVE
                    /\ declarationCounts.uninitialized > 0
                    /\ previousDeclCounts.uninitialized > 0
            THEN <<Diag("combineUninitialized", "consecutive", joinDeclarations(node))>>
            ELSE <<>>
       ELSE <<>>

\* checkVariableDeclaration, the part under `// consecutive`.
consecutiveCheck(opts, node) ==
    LET type == node.kind
        declarations == node.declarations
        declarationCounts == countDeclarations(declarations)
        previousNode == node.prev
        declarationsWithPrevious == declarations \o previousNode.declarations
        previousDeclCounts == countDeclarations(previousNode.declarations)
    IN IF /\ hasPreviousInBody(node)
          /\ previousNode.type = "VariableDeclaration"
          /\ previousNode.kind = type
          /\ ~(/\ someIsRequire(declarationsWithPrevious)
               /\ ~everyIsRequire(declarationsWithPrevious))
       THEN IF /\ opts.kinds[type].initialized = MODE_CONSECUTIVE
               /\ opts.kinds[type].uninitialized = MODE_CONSECUTIVE
            THEN <<Diag("combine", "consecutive", joinDeclarations(node))>>
            ELSE IF /\ opts.kinds[type].initialized = MODE_CONSECUTIVE
                    /\ declarationCounts.initialized > 0
                    /\ previousDeclCounts.initialized > 0
            THEN <<Diag("combineInitialized", "consecutive", joinDeclarations(node))>>
            ELSE IF /\ opts.kinds[type].uninitialized = MODE_CONSECUTIVE
                    /\ declarationCounts.uninitialized > 0
                    /\ previousDeclCounts.uninitialized > 0
            THEN <<Diag("combineUninitialized", "consecutive", joinDeclarations(node))>>
            ELSE <<>>
       ELSE <<>>

\* alwaysCheck without the return for the left side of a for-in or for-of.
alwaysCheckEveryPosition(opts, node) ==
    LET type == node.kind
        declarationCounts == countDeclarations(node.declarations)
        initDiag == IF /\ opts.kinds[type].initialized = MODE_ALWAYS
                       /\ declarationCounts.initialized > 0
                    THEN <<Diag("combineInitialized", "always", joinDeclarations(node))>>
                    ELSE <<>>
    IN IF /\ opts.kinds[type].initialized = MODE_ALWAYS
          /\ opts.kinds[type].uninitialized = MODE_ALWAYS
       THEN [diags |-> <<Diag("combine", "always", joinDeclarations(node))>>,
             returned |-> FALSE]
       ELSE IF /\ opts.kinds[type].uninitialized = MODE_ALWAYS
               /\ declarationCounts.uninitialized > 0
            THEN [diags |-> initDiag \o
                            <<Diag("combineUninitialized", "always",
                                   joinDeclarations(node))>>,
                  returned |-> FALSE]
            ELSE [diags |-> initDiag, returned |-> FALSE]

\* checkVariableDeclaration, the part under `// always`, entered when
\* hasOnlyOneStatement returned false: the diagnostics, and whether the
\* handler returned there (the left side of a for-in or for-of).
alwaysCheck(opts, node) ==
    LET type == node.kind
        declarationCounts == countDeclarations(node.declarations)
        initDiag == IF /\ opts.kinds[type].initialized = MODE_ALWAYS
                       /\ declarationCounts.initialized > 0
                    THEN <<Diag("combineInitialized", "always", joinDeclarations(node))>>
                    ELSE <<>>
    IN IF /\ opts.kinds[type].initialized = MODE_ALWAYS
          /\ opts.kinds[type].uninitialized = MODE_ALWAYS
       THEN [diags |-> <<Diag("combine", "always", joinDeclarations(node))>>,
             returned |-> FALSE]
       ELSE IF /\ opts.kinds[type].uninitialized = MODE_ALWAYS
               /\ declarationCounts.uninitialized > 0
            THEN IF /\ node.role = "left"
                    /\ node.parentType \in {"ForInStatement", "ForOfStatement"}
                 THEN [diags |-> initDiag, returned |-> TRUE]
                 ELSE [diags |-> initDiag \o
                                 <<Diag("combineUninitialized", "always",
                                        joinDeclarations(node))>>,
                       returned |-> FALSE]
            ELSE [diags |-> initDiag, returned |-> FALSE]

\* neverCheck with `||` for the `&&` of its generic branch.
neverCheckEitherMode(opts, node) ==
    LET type == node.kind
        declarationCounts == countDeclarations(node.declarations)
        totalDeclarations == declarationCounts.uninitialized + declarationCounts.initialized
    IN IF node.parentType # "ForStatement" \/ node.role # "init"
       THEN IF totalDeclarations > 1
            THEN IF \/ opts.kinds[type].initialized = MODE_NEVER
                    \/ opts.kinds[type].uninitialized = MODE_NEVER
                 THEN <<Diag("split", "never", splitDeclarations(node))>>
                 ELSE <<>>
            ELSE <<>>
       ELSE <<>>

\* neverCheck without the test of the init of a for statement.
neverCheckAnywhere(opts, node) ==
    LET type == node.kind
        declarationCounts == countDeclarations(node.declarations)
        totalDeclarations == declarationCounts.uninitialized + declarationCounts.initialized
    IN IF totalDeclarations > 1
       THEN IF /\ opts.kinds[type].initialized = MODE_NEVER
               /\ opts.kinds[type].uninitialized = MODE_NEVER
            THEN <<Diag("split", "never", splitDeclarations(node))>>
            ELSE IF /\ opts.kinds[type].initialized = MODE_NEVER
                    /\ declarationCounts.initialized > 0
            THEN <<Diag("splitInitialized", "never", splitDeclarations(node))>>
            ELSE IF /\ opts.kinds[type].uninitialized = MODE_NEVER
                    /\ declarationCounts.uninitialized > 0
            THEN <<Diag("splitUninitialized", "never", splitDeclarations(node))>>
            ELSE <<>>
       ELSE <<>>

\* checkVariableDeclaration, the part under `// never`.
neverCheck(opts, node) ==
    LET type == node.kind
        declarationCounts == countDeclarations(node.declarations)
        totalDeclarations == declarationCounts.uninitialized + declarationCounts.initialized
    IN IF node.parentType # "ForStatement" \/ node.role # "init"
       THEN IF totalDeclarations > 1
            THEN IF /\ opts.kinds[type].initialized = MODE_NEVER
                    /\ opts.kinds[type].uninitialized = MODE_NEVER
                 THEN <<Diag("split", "never", splitDeclarations(node))>>
                 ELSE IF /\ opts.kinds[type].initialized = MODE_NEVER
                         /\ declarationCounts.initialized > 0
                 THEN <<Diag("splitInitialized", "never", splitDeclarations(node))>>
                 ELSE IF /\ opts.kinds[type].uninitialized = MODE_NEVER
                         /\ declarationCounts.uninitialized > 0
                 THEN <<Diag("splitUninitialized", "never", splitDeclarations(node))>>
                 ELSE <<>>
            ELSE <<>>
       ELSE <<>>

\* checkVariableDeclaration where the always check reports nothing for a
\* statement the consecutive check has reported.
checkVariableDeclarationOncePerNode(opts, node, st) ==
    IF node.kind \notin opts.set
    THEN [diags |-> <<>>, st |-> st, only |-> "skipped"]
    ELSE LET first == requiresCheck(opts, node) \o consecutiveCheck(opts, node)
             only == hasOnlyOneStatement(opts, node.kind, node.declarations, st)
             always == IF only.ret \/ consecutiveCheck(opts, node) # <<>>
                       THEN [diags |-> <<>>, returned |-> FALSE]
                       ELSE alwaysCheck(opts, node)
         IN [diags |-> first \o always.diags \o
                       (IF always.returned THEN <<>> ELSE neverCheck(opts, node)),
             st |-> only.st,
             only |-> IF only.ret THEN "true" ELSE "false"]

\* checkVariableDeclaration(node): the diagnostics it reports, in order, the
\* stacks after it, and what hasOnlyOneStatement returned ("skipped" when the
\* handler returned before calling it).
checkVariableDeclaration(opts, node, st) ==
    IF node.kind \notin opts.set
    THEN [diags |-> <<>>, st |-> st, only |-> "skipped"]
    ELSE LET first == requiresCheck(opts, node) \o consecutiveCheck(opts, node)
             only == hasOnlyOneStatement(opts, node.kind, node.declarations, st)
             always == IF only.ret
                       THEN [diags |-> <<>>, returned |-> FALSE]
                       ELSE alwaysCheck(opts, node)
         IN [diags |-> first \o always.diags \o
                       (IF always.returned THEN <<>> ELSE neverCheck(opts, node)),
             st |-> only.st,
             only |-> IF only.ret THEN "true" ELSE "false"]

\* ------------------------------------------------------- the source text

\* The text of a program is a sequence of lexemes: tokens (a keyword, a
\* punctuator, a declarator, which stands for all the tokens of one), white
\* space and comments. An index of the sequence stands for a range.
Keywords == {"var", "let", "const"}

Names == <<"a", "b", "c", "d", "e", "f", "g", "h", "i">>

IsName(x) == \E n \in 1..Len(Names) : Names[n] = x

WhiteSpace == {" ", "\n"}

\* A Block comment and a Line comment (which a "\n" ends).
Comments == {"/*c*/", "//c"}

IsToken(x) == x \notin WhiteSpace \cup Comments

\* sourceCode.getTokenBefore(nodeOrToken): the token's index, 0 for null.
getTokenBefore(text, i) ==
    LET before == {j \in 1..(i - 1) : IsToken(text[j])}
    IN IF before = {} THEN 0 ELSE CHOOSE j \in before : \A m \in before : m <= j

\* sourceCode.getTokenAfter(nodeOrToken, { includeComments }).
getTokenAfter(text, i, includeComments) ==
    LET after == {j \in (i + 1)..Len(text) :
                     IsToken(text[j]) \/ (includeComments /\ text[j] \in Comments)}
    IN IF after = {} THEN 0 ELSE CHOOSE j \in after : \A m \in after : j <= m

\* The n-th smallest of a set of indices.
Nth(S, n) == CHOOSE i \in S : Cardinality({m \in S : m < i}) = n - 1

\* What the parser gives of a statement list: the j-th declaration
\* statement's keyword, where the statement's lexemes end, its declarators,
\* whether a named export wraps it.
KeywordsAt(text) == {i \in 1..Len(text) : text[i] \in Keywords}

NumStatements(text) == Cardinality(KeywordsAt(text))

KeywordOf(text, j) == Nth(KeywordsAt(text), j)

EndOf(text, j) ==
    IF j = NumStatements(text) THEN Len(text) ELSE KeywordOf(text, j + 1) - 1

DeclaratorsOf(text, j) ==
    {i \in KeywordOf(text, j)..EndOf(text, j) : IsName(text[i])}

IsExported(text, j) ==
    LET t == getTokenBefore(text, KeywordOf(text, j))
    IN t > 0 /\ text[t] = "export"

\* The statements of a text: kind, declarators in order, exported or not.
Parse(text) ==
    [j \in 1..NumStatements(text) |->
        [export |-> IsExported(text, j),
         kind |-> text[KeywordOf(text, j)],
         declarations |-> SelectSeq(SubSeq(text, KeywordOf(text, j), EndOf(text, j)),
                                    IsName)]]

\* ------------------------------------------------------- the fixers

\* fixer.replaceText, fixer.insertTextAfter, fixer.replaceTextRange: the
\* lexemes from `from` up to, not including, `to` become `text`.
Edit(from, to, text) == [from |-> from, to |-> to, text |-> text]

replaceText(i, text) == Edit(i, i + 1, text)

insertTextAfter(i, text) == Edit(i + 1, i + 1, text)

replaceTextRange(from, to, text) == Edit(from, to, text)

\* joinFixer without its last edit, the one that removes the keyword.
joinFixerKeepKeyword(text, container, j) ==
    LET declaration == Nth(DeclaratorsOf(text, j), 1)
        hasBody == ~IsExported(text, j) /\ container \in BodyArrayParents
        hasPreviousNode == hasBody /\ j > 1
        previousKind == IF IsExported(text, j - 1)
                        THEN Undefined
                        ELSE text[KeywordOf(text, j - 1)]
        type == getTokenBefore(text, declaration)
        prevSemi == getTokenBefore(text, type)
    IN IF hasPreviousNode /\ previousKind = text[type]
       THEN <<IF text[prevSemi] = ";"
              THEN replaceText(prevSemi, <<",">>)
              ELSE insertTextAfter(prevSemi, <<",">>)>>
       ELSE <<>>

\* The function joinDeclarations returns, run on the j-th statement of a
\* text whose statements sit in `container`: its edits.
joinFixer(text, container, j) ==
    LET declaration == Nth(DeclaratorsOf(text, j), 1)
        \* declaration.parent.parent.body is an array
        hasBody == ~IsExported(text, j) /\ container \in BodyArrayParents
        hasPreviousNode == hasBody /\ j > 1
        previousKind == IF IsExported(text, j - 1)
                        THEN Undefined
                        ELSE text[KeywordOf(text, j - 1)]
        type == getTokenBefore(text, declaration)
        prevSemi == getTokenBefore(text, type)
    IN IF hasPreviousNode /\ previousKind = text[type]
       THEN <<IF text[prevSemi] = ";"
              THEN replaceText(prevSemi, <<",">>)
              ELSE insertTextAfter(prevSemi, <<",">>),
              replaceText(type, <<>>)>>
       ELSE <<>>

\* splitDeclarator replacing the range up to the next declarator without
\* the text it held.
splitDeclaratorDropText(text, kind, exportPlacement, declarator) ==
    LET tokenAfterDeclarator == getTokenAfter(text, declarator, FALSE)
        afterComma == getTokenAfter(text, tokenAfterDeclarator, TRUE)
        laterLine == \E i \in (tokenAfterDeclarator + 1)..(afterComma - 1) : text[i] = "\n"
        lastComment == IF IsToken(text[afterComma])
                       THEN afterComma
                       ELSE getTokenAfter(text, afterComma, FALSE)
    IN IF tokenAfterDeclarator = 0 THEN <<>>
       ELSE IF text[tokenAfterDeclarator] # "," THEN <<>>
       ELSE IF afterComma = tokenAfterDeclarator + 1
       THEN <<replaceText(tokenAfterDeclarator,
                          <<";", " ">> \o exportPlacement \o <<kind, " ">>)>>
       ELSE IF laterLine \/ text[afterComma] \in Comments
       THEN <<replaceTextRange(tokenAfterDeclarator, lastComment,
                               <<";", "\n">> \o exportPlacement \o <<kind, " ">>)>>
       ELSE <<replaceText(tokenAfterDeclarator,
                          <<";", " ">> \o exportPlacement \o <<kind>>)>>

\* splitDeclarator without the export prefix in its replacement texts.
splitDeclaratorNoExport(text, kind, exportPlacement, declarator) ==
    LET tokenAfterDeclarator == getTokenAfter(text, declarator, FALSE)
        afterComma == getTokenAfter(text, tokenAfterDeclarator, TRUE)
        laterLine == \E i \in (tokenAfterDeclarator + 1)..(afterComma - 1) : text[i] = "\n"
        lastComment == IF IsToken(text[afterComma])
                       THEN afterComma
                       ELSE getTokenAfter(text, afterComma, FALSE)
    IN IF tokenAfterDeclarator = 0 THEN <<>>
       ELSE IF text[tokenAfterDeclarator] # "," THEN <<>>
       ELSE IF afterComma = tokenAfterDeclarator + 1
       THEN <<replaceText(tokenAfterDeclarator,
                          <<";", " ">> \o <<kind, " ">>)>>
       ELSE IF laterLine \/ text[afterComma] \in Comments
       THEN <<replaceTextRange(tokenAfterDeclarator, lastComment,
                               <<";">>
                               \o SubSeq(text, tokenAfterDeclarator + 1, lastComment - 1)
                               \o <<kind, " ">>)>>
       ELSE <<replaceText(tokenAfterDeclarator,
                          <<";", " ">> \o <<kind>>)>>

\* The callback of splitDeclarations' map, on one declarator: no edit or one.
splitDeclarator(text, kind, exportPlacement, declarator) ==
    LET tokenAfterDeclarator == getTokenAfter(text, declarator, FALSE)
        afterComma == getTokenAfter(text, tokenAfterDeclarator, TRUE)
        laterLine == \E i \in (tokenAfterDeclarator + 1)..(afterComma - 1) : text[i] = "\n"
        lastComment == IF IsToken(text[afterComma])
                       THEN afterComma
                       ELSE getTokenAfter(text, afterComma, FALSE)
    IN IF tokenAfterDeclarator = 0 THEN <<>>
       ELSE IF text[tokenAfterDeclarator] # "," THEN <<>>
       ELSE IF afterComma = tokenAfterDeclarator + 1
       THEN <<replaceText(tokenAfterDeclarator,
                          <<";", " ">> \o exportPlacement \o <<kind, " ">>)>>
       ELSE IF laterLine \/ text[afterComma] \in Comments
       THEN <<replaceTextRange(tokenAfterDeclarator, lastComment,
                               <<";">>
                               \o SubSeq(text, tokenAfterDeclarator + 1, lastComment - 1)
                               \o exportPlacement \o <<kind, " ">>)>>
       ELSE <<replaceText(tokenAfterDeclarator,
                          <<";", " ">> \o exportPlacement \o <<kind>>)>>

RECURSIVE splitDeclaratorsFrom(_, _, _, _, _)
splitDeclaratorsFrom(text, kind, exportPlacement, declarators, n) ==
    IF n > Cardinality(declarators)
    THEN <<>>
    ELSE splitDeclarator(text, kind, exportPlacement, Nth(declarators, n))
         \o splitDeclaratorsFrom(text, kind, exportPlacement, declarators, n + 1)

\* splitDeclarations on the j-th statement: null, or the edits of the
\* function it returns.
splitFixer(text, container, j) ==
    LET exported == IsExported(text, j)
        node == [parentType |-> IF exported THEN "ExportNamedDeclaration" ELSE container,
                 grandparentType |-> IF exported THEN container ELSE Undefined]
        exportPlacement == IF exported THEN <<"export", " ">> ELSE <<>>
    IN IF splitDeclarations(node) = "null"
       THEN [null |-> TRUE, edits |-> <<>>]
       ELSE [null |-> FALSE,
             edits |-> splitDeclaratorsFrom(text, text[KeywordOf(text, j)],
                                            exportPlacement, DeclaratorsOf(text, j), 1)]

\* The text after a fix's edits, which do not overlap and come in the
\* order of the text: the last is applied first.
RECURSIVE applyEdits(_, _)
applyEdits(text, edits) ==
    IF edits = <<>>
    THEN text
    ELSE LET e == edits[Len(edits)]
         IN applyEdits(SubSeq(text, 1, e.from - 1) \o e.text \o SubSeq(text, e.to, Len(text)),
                       SubSeq(edits, 1, Len(edits) - 1))

\* ------------------------------------------------------- the state

VARIABLES
    pc,             \* "new", "created", "walking", "done": where the host is
    mode,           \* context.options[0]
    options,        \* create()'s `options`
    functionStack,  \* create()'s `functionStack`
    blockStack,     \* create()'s `blockStack`
    path,           \* the walker's position: a frame per open region
    budget,         \* the declaration statements the program still holds
    depth,          \* the most regions the program nests
    last,           \* the last hook the host called and what it reported
    container,      \* the type of the node whose statements the text holds
    start,          \* the text before any fix
    source,         \* the text, sourceCode.text
    applied,        \* the fixes applied to the text, in order
    scopeManager,   \* the scopes of the program no-undefined is run on
    exitPc,         \* where no-undefined's "Program:exit" is
    stack,          \* its `stack`
    checkedScopes,  \* the scopes checkScope was called on, in order
    reports         \* the nodes no-undefined reported, in order

walkVars == <<pc, mode, options, functionStack, blockStack, path, budget, depth, last>>

fixVars == <<container, start, source, applied>>

scopeVars == <<scopeManager, exitPc, stack, checkedScopes, reports>>

vars == <<pc, mode, options, functionStack, blockStack, path, budget, depth, last,
          container, start, source, applied,
          scopeManager, exitPc, stack, checkedScopes, reports>>

Stacks == [functionStack |-> functionStack, blockStack |-> blockStack]

\* The visitor keys that run startFunction / endFunction, and those that run
\* startBlock / endBlock. "Function" stands for FunctionDeclaration,
\* FunctionExpression and ArrowFunctionExpression, which differ in nothing
\* the rule reads.
FunctionLike == {"Program", "Function", "StaticBlock"}
BlockLike == {"BlockStatement", "ForStatement", "ForInStatement", "ForOfStatement",
              "SwitchStatement"}

\* The regions whose children are a list of statements.
ListRegions == {"Program", "BlockStatement", "StaticBlock", "SwitchStatement"}
\* The regions that have a head and then one body.
HeadRegions == {"Function", "ForStatement", "ForInStatement", "ForOfStatement"}

NoSeen == [k \in PolicyKinds |-> FALSE]

\* A frame of the walker: the region's type, how far the walk is in a head
\* region (0: at the start, 1: past the declaration of the head, 2: past the
\* body), the statement before the walker in a list region, which kinds of
\* declaration have been checked in the region, and the stacks as they were
\* when the region was entered.
Frame(type, saved) ==
    [type |-> type, phase |-> 0, prev |-> NoNode, seen |-> NoSeen, saved |-> saved]

NoCheck == [kind |-> Undefined, declarations |-> <<>>, parentType |-> Undefined,
            grandparentType |-> Undefined, role |-> Undefined, prev |-> NoNode]

NoStacks == [functionStack |-> <<>>, blockStack |-> <<>>]

\* What the host saw of a hook: the hook (`event`, and the region's type),
\* for a declaration the node, the diagnostics reported, what
\* hasOnlyOneStatement returned, whether a statement of the kind had been
\* checked in the scope and the scope's record, both as they were before,
\* and the stacks as they were just before the check; for an exit the stacks
\* as they were when the region was entered and as they were just before
\* the exit.
Last(event, region, node, diags, only, seenBefore, scopeBefore, saved, before) ==
    [event |-> event, region |-> region, node |-> node, diags |-> diags,
     only |-> only, seenBefore |-> seenBefore, scopeBefore |-> scopeBefore,
     saved |-> saved, before |-> before]

Hook(event, region, saved, before) ==
    Last(event, region, NoCheck, <<>>, "skipped", FALSE, FreshRecord, saved, before)

NoLast == Hook("none", Undefined, NoStacks, NoStacks)

\* ------------------------------------------------------- what a parser produces

RECURSIVE SeqsUpTo(_, _)
SeqsUpTo(S, n) ==
    IF n = 0 THEN {<<>>}
    ELSE LET shorter == SeqsUpTo(S, n - 1)
         IN shorter \cup {Append(q, x) : q \in {r \in shorter : Len(r) = n - 1}, x \in S}

\* The declarator lists of a statement: any, and those of a `const` or
\* `using` statement, whose declarators need an initializer.
AnyDeclarations == {q \in SeqsUpTo(Declarators, MaxDecls) : Len(q) > 0}

InitializedDeclarations == {q \in SeqsUpTo({"I", "R"}, MaxDecls) : Len(q) > 0}

\* The statements of a kind: <<kind, declarations>>.
Statements ==
    {<<k, d>> : k \in {"var", "let"}, d \in AnyDeclarations}
    \cup {<<k, d>> : k \in {"const", "using"}, d \in InitializedDeclarations}

Top == path[Len(path)]

\* The index of the innermost function-like frame.
FunctionFrame ==
    CHOOSE i \in 1..Len(path) :
        /\ path[i].type \in FunctionLike
        /\ \A j \in (i + 1)..Len(path) : path[j].type \notin FunctionLike

\* Whether a statement of this kind was already checked in the scope the
\* kind belongs to: the function for var, the innermost region for the rest.
SeenBefore(kind) ==
    CASE kind = "var" -> path[FunctionFrame].seen["var"]
      [] kind \in PolicyKinds -> Top.seen[kind]
      [] OTHER -> FALSE

MarkSeen(p, kind) ==
    CASE kind = "var" -> [p EXCEPT ![FunctionFrame].seen["var"] = TRUE]
      [] kind \in PolicyKinds -> [p EXCEPT ![Len(p)].seen[kind] = TRUE]
      [] OTHER -> p

Node(kind, declarations, parentType, grandparentType, role, prev) ==
    [kind |-> kind, declarations |-> declarations, parentType |-> parentType,
     grandparentType |-> grandparentType, role |-> role, prev |-> prev]

\* The declaration statements the walker can meet in a region: a statement
\* of a list, an exported declaration of a module, the unbraced body of an
\* `if` (a `var` only), the init of a for, the left of a for-in or for-of,
\* the unbraced body of a loop (a `var` only).
NodesIn(frame) ==
    (IF frame.type \in ListRegions
     THEN {Node(s[1], s[2],
                IF frame.type = "SwitchStatement" THEN "SwitchCase" ELSE frame.type,
                Undefined, "list", frame.prev) : s \in Statements}
          \cup {Node("var", d, "IfStatement", Undefined, "body", NoNode) :
                  d \in AnyDeclarations}
     ELSE {})
    \cup
    (IF frame.type = "Program"
     THEN {Node(s[1], s[2], "ExportNamedDeclaration", "Program", "declaration", NoNode) :
             s \in {x \in Statements : x[1] # "using"}}
     ELSE {})
    \cup
    (IF frame.type = "ForStatement" /\ frame.phase = 0
     THEN {Node(s[1], s[2], "ForStatement", Undefined, "init", NoNode) : s \in Statements}
     ELSE {})
    \cup
    (IF frame.type \in {"ForInStatement", "ForOfStatement"} /\ frame.phase = 0
     THEN {Node(k, <<"U">>, frame.type, Undefined, "left", NoNode) : k \in PolicyKinds}
     ELSE {})
    \cup
    (IF frame.type \in {"ForStatement", "ForInStatement", "ForOfStatement"}
        /\ frame.phase < 2
     THEN {Node("var", d, frame.type, Undefined, "body", NoNode) : d \in AnyDeclarations}
     ELSE {})

\* Nothing before the walk has begun, after it has ended or once the
\* program has no statement left.
Nodes == IF pc = "walking" /\ budget > 0 THEN NodesIn(Top) ELSE {}

\* The walker's frame after it has passed a declaration statement.
AfterNode(frame, node) ==
    CASE node.role = "list" ->
            [frame EXCEPT !.prev = DeclarationNode(node.kind, node.declarations)]
      [] node.role = "declaration" -> [frame EXCEPT !.prev = OtherNode]
      [] node.role = "body" /\ frame.type \in ListRegions ->
            [frame EXCEPT !.prev = OtherNode]
      [] node.role = "body" -> [frame EXCEPT !.phase = 2]
      [] OTHER -> [frame EXCEPT !.phase = 1]

\* ------------------------------------------------------- the hooks

WalkInit(configurations, statements, regions) ==
    /\ pc = "new"
    /\ mode \in configurations
    /\ options = EmptyOptions
    /\ functionStack = <<>>
    /\ blockStack = <<>>
    /\ path = <<>>
    /\ budget = statements
    /\ depth = regions
    /\ last = NoLast

\* No text is fixed during a walk.
NoSource ==
    /\ container = Undefined
    /\ start = <<>>
    /\ source = <<>>
    /\ applied = <<>>

\* No program is handed to no-undefined during a walk or a fix of one-var.
NoProgram == [n |-> 0, parent |-> <<>>, undefinedVar |-> <<>>]

NoScopes ==
    /\ scopeManager = NoProgram
    /\ exitPc = "none"
    /\ stack = <<>>
    /\ checkedScopes = <<>>
    /\ reports = <<>>

InitWith(configurations, statements, regions) ==
    WalkInit(configurations, statements, regions) /\ NoSource /\ NoScopes

Init == InitWith(WalkOptions, MaxStatements, MaxDepth)

SetStacks(st) ==
    /\ functionStack' = st.functionStack
    /\ blockStack' = st.blockStack

\* create(context): the policy is derived from the option.
Create ==
    /\ pc = "new"
    /\ pc' = "created"
    /\ options' = DeriveOptions(mode)
    /\ last' = Hook("create", Undefined, NoStacks, NoStacks)
    /\ UNCHANGED <<mode, functionStack, blockStack, path, budget, depth>>
    /\ UNCHANGED <<fixVars, scopeVars>>

\* Program: startFunction.
Program ==
    /\ pc = "created"
    /\ pc' = "walking"
    /\ SetStacks(startFunction(Stacks))
    /\ path' = <<Frame("Program", Stacks)>>
    /\ last' = Hook("enter", "Program", NoStacks, NoStacks)
    /\ UNCHANGED <<mode, options, budget, depth>>
    /\ UNCHANGED <<fixVars, scopeVars>>

\* Whether the statement before the walker is a declaration with an
\* initializer, in which a function or a class can sit.
PrevHasInitializer ==
    /\ Top.type \in ListRegions
    /\ Top.prev.type = "VariableDeclaration"
    /\ \E i \in 1..Len(Top.prev.declarations) : Top.prev.declarations[i] # "U"

\* The frame of the enclosing region once the walker enters a child region:
\* a child of a list region is a statement of its own or, for a function or
\* a class, part of one (`inInit`: of the declaration just checked); a
\* block-like child of a head region is its body.
ParentAfterEnter(frame, t, inInit) ==
    IF frame.type \in ListRegions
    THEN IF inInit THEN frame ELSE [frame EXCEPT !.prev = OtherNode]
    ELSE IF t \in BlockLike THEN [frame EXCEPT !.phase = 2] ELSE frame

\* A region is entered while the program nests no deeper than its bound and
\* still holds a declaration statement: what follows the last declaration
\* of a program is only left.
CanEnter(t) ==
    /\ pc = "walking"
    /\ budget > 0
    /\ Len(path) < depth
    /\ \/ Top.type \in ListRegions
       \/ /\ Top.type \in HeadRegions
          /\ Top.phase < 2
          /\ (Top.type = "Function" /\ t \in BlockLike) => t = "BlockStatement"

\* FunctionDeclaration, FunctionExpression, ArrowFunctionExpression,
\* StaticBlock: startFunction.
EnterFunction(t, inInit) ==
    /\ CanEnter(t)
    /\ inInit => PrevHasInitializer
    /\ SetStacks(startFunction(Stacks))
    /\ path' = Append([path EXCEPT ![Len(path)] = ParentAfterEnter(@, t, inInit)],
                      Frame(t, Stacks))
    /\ last' = Hook("enter", t, NoStacks, NoStacks)
    /\ UNCHANGED <<pc, mode, options, budget, depth>>
    /\ UNCHANGED <<fixVars, scopeVars>>

\* BlockStatement, ForStatement, ForInStatement, ForOfStatement,
\* SwitchStatement: startBlock.
EnterBlock(t) ==
    /\ CanEnter(t)
    /\ SetStacks(startBlock(Stacks))
    /\ path' = Append([path EXCEPT ![Len(path)] = ParentAfterEnter(@, t, FALSE)],
                      Frame(t, Stacks))
    /\ last' = Hook("enter", t, NoStacks, NoStacks)
    /\ UNCHANGED <<pc, mode, options, budget, depth>>
    /\ UNCHANGED <<fixVars, scopeVars>>

\* VariableDeclaration: checkVariableDeclaration(node).
VariableDeclaration(node) ==
    /\ pc = "walking"
    /\ budget > 0
    /\ budget' = budget - 1
    /\ LET res == checkVariableDeclaration(options, node, Stacks)
       IN /\ SetStacks(res.st)
          /\ last' = Last("check", Top.type, node, res.diags, res.only,
                          SeenBefore(node.kind),
                          IF node.kind \in PolicyKinds
                          THEN getCurrentScope(node.kind, Stacks)
                          ELSE FreshRecord,
                          NoStacks, Stacks)
    /\ path' = MarkSeen([path EXCEPT ![Len(path)] = AfterNode(@, node)], node.kind)
    /\ UNCHANGED <<pc, mode, options, depth>>
    /\ UNCHANGED <<fixVars, scopeVars>>

\* A statement that is no declaration and opens no region: no hook runs.
OtherStatement ==
    /\ pc = "walking"
    /\ budget > 0
    /\ Top.type \in ListRegions
    /\ Top.prev # OtherNode
    /\ path' = [path EXCEPT ![Len(path)].prev = OtherNode]
    /\ last' = Hook("other", Top.type, NoStacks, NoStacks)
    /\ UNCHANGED <<pc, mode, options, functionStack, blockStack, budget, depth>>
    /\ UNCHANGED <<fixVars, scopeVars>>

\* "BlockStatement:exit" and the exits of the loops and the switch: endBlock.
ExitBlock ==
    /\ pc = "walking"
    /\ Top.type \in BlockLike
    /\ SetStacks(endBlock(Stacks))
    /\ path' = Pop(path)
    /\ last' = Hook("exit", Top.type, Top.saved, Stacks)
    /\ UNCHANGED <<pc, mode, options, budget, depth>>
    /\ UNCHANGED <<fixVars, scopeVars>>

\* The exits of the functions and the static block: endFunction.
ExitFunction ==
    /\ pc = "walking"
    /\ Top.type \in FunctionLike \ {"Program"}
    /\ SetStacks(endFunction(Stacks))
    /\ path' = Pop(path)
    /\ last' = Hook("exit", Top.type, Top.saved, Stacks)
    /\ UNCHANGED <<pc, mode, options, budget, depth>>
    /\ UNCHANGED <<fixVars, scopeVars>>

\* "Program:exit": endFunction; the walk is over.
ProgramExit ==
    /\ pc = "walking"
    /\ Top.type = "Program"
    /\ pc' = "done"
    /\ SetStacks(endFunction(Stacks))
    /\ path' = Pop(path)
    /\ last' = Hook("exit", "Program", Top.saved, Stacks)
    /\ UNCHANGED <<mode, options, budget, depth>>
    /\ UNCHANGED <<fixVars, scopeVars>>

Next ==
    \/ Create
    \/ Program
    \/ \E t \in {"Function", "StaticBlock"}, inInit \in BOOLEAN : EnterFunction(t, inInit)
    \/ \E t \in BlockLike : EnterBlock(t)
    \/ \E node \in Nodes : VariableDeclaration(node)
    \/ OtherStatement
    \/ ExitBlock
    \/ ExitFunction
    \/ ProgramExit

Spec == Init /\ [][Next]_vars

\* ------------------------------------------------------- the other runs

\* The declaration statements without a call of `require`.
PlainNodes == {n \in Nodes : ~someIsRequire(n.declarations)}

\* The walks of require-free programs under the default option and under
\* "always", one statement longer than the walks of Spec.
InitAlways ==
    InitWith({NoOption, [NoOption EXCEPT !.shape = "string", !.str = MODE_ALWAYS]},
             MaxStatements + 1, MaxDepth)

NextAlways ==
    \/ Create
    \/ Program
    \/ \E t \in {"Function", "StaticBlock"}, inInit \in BOOLEAN : EnterFunction(t, inInit)
    \/ \E t \in BlockLike : EnterBlock(t)
    \/ \E node \in PlainNodes : VariableDeclaration(node)
    \/ OtherStatement
    \/ ExitBlock
    \/ ExitFunction
    \/ ProgramExit

SpecAlways == InitAlways /\ [][NextAlways]_vars

\* The walks of programs of one declaration statement that nest one region
\* deeper, under the option strings and the default.
InitDeep == InitWith({NoOption} \cup StringOptions, MaxStatements - 1, MaxDepth + 1)

SpecDeep == InitDeep /\ [][Next]_vars

\* create() alone, on every option value, the ones the schema refuses too.
InitConfig == InitWith(AllOptions, MaxStatements, MaxDepth)

SpecConfig == InitConfig /\ [][Create]_vars

\* The walks under the objects that leave kinds out: those that name no
\* kind or `var` alone, with separateRequires absent, true or false. The
\* object without any property is refused by the schema; create() derives
\* from it what it derives from { separateRequires: false }.
EmptyObject == [NoOption EXCEPT !.shape = "object"]

OmittedOptions ==
    {o \in ValidOptions :
        /\ SchemaKindObject(o)
        /\ o.let = Undefined /\ o.const = Undefined
        /\ o.var \in {Undefined, MODE_ALWAYS}}

InitOmitted == InitWith(OmittedOptions, MaxStatements, MaxDepth)

SpecOmitted == InitOmitted /\ [][Next]_vars

\* ------------------------------------------------------- the fixes of a text

\* The most fixes applied to one text.
MaxFixes == 2

\* What stands between a comma and the next declarator.
Layouts ==
    {<<>>, <<" ">>, <<"\n", " ">>,
     <<"/*c*/">>, <<" ", "//c", "\n">>, <<"\n", "/*c*/", " ">>,
     <<" ", "/*c*/", " ", "//c", "\n">>}

\* The nodes that hold the statements of a text: the body of a program, a
\* block or a static block, the consequent of a switch case, and an `if`,
\* whose unbraced body is one statement.
Containers == {"Program", "BlockStatement", "StaticBlock", "SwitchCase", "IfStatement"}

\* The declarators of the s-th statement of a text, n of them: d, the d-th.
DeclaratorName(s, d) == Names[(s - 1) * MaxDecls + d]

RECURSIVE DeclaratorList(_, _, _)
DeclaratorList(s, n, layout) ==
    IF n = 1
    THEN <<DeclaratorName(s, 1)>>
    ELSE DeclaratorList(s, n - 1, layout) \o <<",">> \o layout \o <<DeclaratorName(s, n)>>

StatementText(export, kind, s, n, layout, semi) ==
    (IF export THEN <<"export", " ">> ELSE <<>>)
    \o <<kind, " ">> \o DeclaratorList(s, n, layout)
    \o (IF semi THEN <<";">> ELSE <<>>)

\* The texts the s-th statement can have: a `var` or a `let`, exported or
\* not in a program, with or without its semicolon.
StatementTexts(where, s) ==
    {StatementText(export, kind, s, n, layout, semi) :
        export \in (IF where = "Program" THEN BOOLEAN ELSE {FALSE}),
        kind \in (IF where = "IfStatement" THEN {"var"} ELSE {"var", "let"}),
        n \in 1..MaxDecls, layout \in Layouts, semi \in BOOLEAN}

\* The texts of s statements: a statement that follows one without a
\* semicolon starts a line.
RECURSIVE SourcesOf(_, _)
SourcesOf(where, s) ==
    IF s = 1
    THEN StatementTexts(where, 1)
    ELSE {before \o (IF before[Len(before)] = ";" THEN <<" ">> ELSE <<"\n">>) \o statement :
             before \in SourcesOf(where, s - 1), statement \in StatementTexts(where, s)}

Sources(where) ==
    IF where = "IfStatement"
    THEN SourcesOf(where, 1)
    ELSE UNION {SourcesOf(where, s) : s \in 1..MaxStatements}

InitFix ==
    /\ WalkInit({NoOption}, 0, 0)
    /\ container \in Containers
    /\ start \in Sources(container)
    /\ source = start
    /\ applied = <<>>
    /\ NoScopes

Fix(name, index, null, edits) ==
    [fix |-> name, index |-> index, null |-> null, edits |-> edits]

\* The fix of a combine diagnostic on the j-th statement is applied. The
\* ALWAYS check reports a statement that is not the first of its kind.
Join(j) ==
    /\ Len(applied) < MaxFixes
    /\ j \in 2..NumStatements(source)
    /\ \E i \in 1..(j - 1) : source[KeywordOf(source, i)] = source[KeywordOf(source, j)]
    /\ LET edits == joinFixer(source, container, j)
       IN /\ source' = applyEdits(source, edits)
          /\ applied' = Append(applied, Fix("join", j, FALSE, edits))
    /\ UNCHANGED <<container, start>>
    /\ UNCHANGED <<walkVars, scopeVars>>

\* The fix of a split diagnostic on the j-th statement is applied, if it is
\* one. The NEVER check reports a statement of more than one declarator.
Split(j) ==
    /\ Len(applied) < MaxFixes
    /\ j \in 1..NumStatements(source)
    /\ Cardinality(DeclaratorsOf(source, j)) > 1
    /\ LET fix == splitFixer(source, container, j)
       IN /\ source' = applyEdits(source, fix.edits)
          /\ applied' = Append(applied, Fix("split", j, fix.null, fix.edits))
    /\ UNCHANGED <<container, start>>
    /\ UNCHANGED <<walkVars, scopeVars>>

NextFix ==
    \/ \E j \in 1..(MaxStatements * MaxDecls) : Join(j)
    \/ \E j \in 1..(MaxStatements * MaxDecls) : Split(j)

SpecFix == InitFix /\ [][NextFix]_vars

\* The texts the split fix alone is run on: a statement of two declarators
\* or more, up to one more than in the texts above, alone or followed by a
\* statement of one declarator.
SplitSources(where) ==
    LET first == {StatementText(export, kind, 1, n, layout, semi) :
                     export \in (IF where = "Program" THEN BOOLEAN ELSE {FALSE}),
                     kind \in (IF where = "IfStatement" THEN {"var"} ELSE {"var", "let"}),
                     n \in 2..(MaxDecls + 1), layout \in Layouts, semi \in BOOLEAN}
        second == {(IF export THEN <<"export", " ">> ELSE <<>>)
                   \o <<kind, " ", Names[Len(Names)]>> :
                     export \in (IF where = "Program" THEN BOOLEAN ELSE {FALSE}),
                     kind \in {"var", "let"}}
    IN first \cup
       (IF where = "IfStatement" THEN {}
        ELSE {before \o (IF before[Len(before)] = ";" THEN <<" ">> ELSE <<"\n">>) \o statement :
                 before \in first, statement \in second})

InitSplit ==
    /\ WalkInit({NoOption}, 0, 0)
    /\ container \in Containers
    /\ start \in SplitSources(container)
    /\ source = start
    /\ applied = <<>>
    /\ NoScopes

\* One split fix is applied to the text.
NextSplit ==
    \E j \in 1..2 : applied = <<>> /\ Split(j)

SpecSplit == InitSplit /\ [][NextSplit]_vars

\* ------------------------------------------------------- no-undefined

\* The most scopes of a program, the most references to a variable named
\* `undefined` of a scope and the most definitions of it.
MaxScopes == 3
MaxReferences == 2
MaxDefs == 1

\* scope.set.get("undefined") of a scope without such a variable.
NoVariable == [defined |-> FALSE, references |-> <<>>, defs |-> 0]

\* A variable named `undefined`: its references, each with its `init` flag,
\* and the number of its definitions. An initializing reference is the
\* write of a declarator's initializer, so there is at most one for each
\* definition.
UndefinedVariables ==
    {v \in [defined : {TRUE}, references : SeqsUpTo(BOOLEAN, MaxReferences),
            defs : 0..MaxDefs] :
        Cardinality({k \in 1..Len(v.references) : v.references[k]}) <= v.defs}

\* What the scope analysis gives of a program: n scopes, the first the
\* global scope, each other scope in the childScopes of one before it (its
\* `parent`), and what scope.set.get("undefined") is in each.
ScopeManagersOf(n) ==
    [n : {n},
     parent : {q \in [1..n -> 0..n] : \A i \in 1..n : IF i = 1 THEN q[i] = 0
                                                       ELSE q[i] \in 1..(i - 1)},
     undefinedVar : [1..n -> {NoVariable} \cup UndefinedVariables]]

\* sourceCode.getScope(node) on the Program node.
globalScope == 1

\* scope.childScopes, in the order of the program.
childScopes(sm, scope) ==
    LET children == {i \in 1..sm.n : sm.parent[i] = scope}
    IN [k \in 1..Cardinality(children) |-> Nth(children, k)]

\* ref.identifier and def.name: the node of the k-th reference to, and of
\* the k-th definition of, the variable of a scope.
Identifier(scope, role, k) == [scope |-> scope, role |-> role, index |-> k]

\* checkScope reporting every reference, the initializing ones too.
checkScopeEveryReference(sm, scope) ==
    LET undefinedVar == sm.undefinedVar[scope]
    IN IF ~undefinedVar.defined
       THEN <<>>
       ELSE [k \in 1..Len(undefinedVar.references) |-> Identifier(scope, "reference", k)]
            \o [k \in 1..undefinedVar.defs |-> Identifier(scope, "definition", k)]

\* checkScope(scope): the nodes it reports, in order.
checkScope(sm, scope) ==
    LET undefinedVar == sm.undefinedVar[scope]
        references == [k \in 1..Len(undefinedVar.references) |->
                          [identifier |-> Identifier(scope, "reference", k),
                           init |-> undefinedVar.references[k]]]
        NotInit(ref) == ~ref.init
        filtered == SelectSeq(references, NotInit)
    IN IF ~undefinedVar.defined
       THEN <<>>
       ELSE [k \in 1..Len(filtered) |-> filtered[k].identifier]
            \o [k \in 1..undefinedVar.defs |-> Identifier(scope, "definition", k)]

InitUndefined ==
    /\ WalkInit({NoOption}, 0, 0)
    /\ NoSource
    /\ \E n \in 1..MaxScopes : scopeManager \in ScopeManagersOf(n)
    /\ exitPc = "parsed"
    /\ stack = <<>>
    /\ checkedScopes = <<>>
    /\ reports = <<>>

\* "Program:exit": const stack = [globalScope].
StartStack ==
    /\ exitPc = "parsed"
    /\ exitPc' = "while"
    /\ stack' = <<globalScope>>
    /\ UNCHANGED <<scopeManager, checkedScopes, reports>>
    /\ UNCHANGED <<walkVars, fixVars>>

\* One turn of `while (stack.length)`: pop, push the child scopes,
\* checkScope.
WhileStack ==
    /\ exitPc = "while"
    /\ Len(stack) > 0
    /\ LET scope == stack[Len(stack)]
       IN /\ stack' = Pop(stack) \o childScopes(scopeManager, scope)
          /\ checkedScopes' = Append(checkedScopes, scope)
          /\ reports' = reports \o checkScope(scopeManager, scope)
    /\ UNCHANGED <<scopeManager, exitPc>>
    /\ UNCHANGED <<walkVars, fixVars>>

\* The loop's test fails: the handler returns.
Return ==
    /\ exitPc = "while"
    /\ Len(stack) = 0
    /\ exitPc' = "done"
    /\ UNCHANGED <<scopeManager, stack, checkedScopes, reports>>
    /\ UNCHANGED <<walkVars, fixVars>>

NextUndefined ==
    \/ StartStack
    \/ WhileStack
    \/ Return

\* The handler runs to its end once the host has called it: it waits for
\* nothing.
SpecUndefined == InitUndefined /\ [][NextUndefined]_vars /\ WF_vars(NextUndefined)

\* ------------------------------------------------------- the properties

Checked == last.event = "check"

CombineFamily == {"combine", "combineInitialized", "combineUninitialized"}
SplitFamily == {"split", "splitInitialized", "splitUninitialized"}

\* How many of the last check's diagnostics carry a messageId.
CountOf(messageId) ==
    Cardinality({i \in 1..Len(last.diags) : last.diags[i].messageId = messageId})

\* Whether a check (a part of checkVariableDeclaration) reported one of ids.
Reported(check, ids) ==
    \E i \in 1..Len(last.diags) :
        last.diags[i].check = check /\ last.diags[i].messageId \in ids

Mixed(declarations) == someIsRequire(declarations) /\ ~everyIsRequire(declarations)

C2_AlwaysCombine ==
    (Checked /\ last.node.kind \in PolicyKinds)
    => IF last.seenBefore
       THEN /\ Len(last.diags) = 1
            /\ last.diags[1].messageId = "combine"
            /\ last.diags[1].check = "always"
       ELSE \A i \in 1..Len(last.diags) : last.diags[i].messageId \notin CombineFamily

\* The third statement of a program, of a kind already seen in its scope.
C2_Witness ==
    /\ Checked
    /\ budget = 0
    /\ last.seenBefore
    /\ CountOf("combine") = 1

\* Declarators with an initializer that is no call of `require`, only.
OnlyInitialized(declarations) ==
    \A i \in 1..Len(declarations) : declarations[i] = "I"

\* Two adjacent statements of one kind, both of initialized declarators
\* only, under uniform "consecutive".
C3_Case ==
    /\ Checked
    /\ mode.shape = "string" /\ mode.str = MODE_CONSECUTIVE
    /\ last.node.kind \in PolicyKinds
    /\ last.node.role = "list"
    /\ last.node.prev.type = "VariableDeclaration"
    /\ last.node.prev.kind = last.node.kind
    /\ OnlyInitialized(last.node.declarations)
    /\ OnlyInitialized(last.node.prev.declarations)

\* C3 as stated: the second statement is reported once, with
\* combineInitialized. It does not hold: the message is the generic one.
C3_AsStated ==
    C3_Case => (Len(last.diags) = 1 /\ last.diags[1].messageId = "combineInitialized")

\* C3: in that case the second statement is reported exactly once, with
\* the generic `combine`, when the two sit in the body of a program, a
\* block or a static block; in a switch case nothing is reported.
C3_ConsecutiveCombine ==
    C3_Case
    => IF last.node.parentType \in BodyArrayParents
       THEN /\ Len(last.diags) = 1
            /\ last.diags[1].messageId = "combine"
            /\ last.diags[1].check = "consecutive"
       ELSE last.diags = <<>>

C3_Witness ==
    /\ C3_Case
    /\ last.node.parentType = "BlockStatement"
    /\ CountOf("combine") = 1

\* C4 as stated: no statement gets a combine diagnostic of the ALWAYS check
\* and a split diagnostic of the NEVER check. It does not hold when one
\* bucket is "always" and the other "never".
C4_AsStated ==
    Checked => ~(Reported("always", CombineFamily) /\ Reported("never", SplitFamily))

\* C4: the ALWAYS check and the NEVER check never report on the same bucket
\* of one statement: a generic combine comes with no split, a generic split
\* with no combine, combineInitialized never with splitInitialized and
\* combineUninitialized never with splitUninitialized; and the two checks
\* report together only when one of the kind's modes is "always" and the
\* other "never".
C4_CombineSplitExclusive ==
    Checked
    => /\ Reported("always", {"combine"}) => ~Reported("never", SplitFamily)
       /\ Reported("never", {"split"}) => ~Reported("always", CombineFamily)
       /\ ~(/\ Reported("always", {"combineInitialized"})
            /\ Reported("never", {"splitInitialized"}))
       /\ ~(/\ Reported("always", {"combineUninitialized"})
            /\ Reported("never", {"splitUninitialized"}))
       /\ (Reported("always", CombineFamily) /\ Reported("never", SplitFamily))
          => {options.kinds[last.node.kind].initialized,
              options.kinds[last.node.kind].uninitialized} = {MODE_ALWAYS, MODE_NEVER}

C4_Witness ==
    /\ Checked
    /\ Reported("always", {"combineInitialized"})
    /\ Reported("never", {"splitUninitialized"})

BothAlways(kind) ==
    /\ options.kinds[kind].initialized = MODE_ALWAYS
    /\ options.kinds[kind].uninitialized = MODE_ALWAYS

\* The record of the checked statement's kind, after the check.
ScopeAfter == getCurrentScope(last.node.kind, Stacks)

HasDeclarator(declarations, d) == \E i \in 1..Len(declarations) : declarations[i] = d

\* C5 as stated: under ALWAYS/ALWAYS a statement checked on a fresh record
\* is no violation and leaves exactly the flags of the initialization
\* states it holds, and a later require-free statement writes nothing. It
\* does not hold under separateRequires.
C5_AsStated ==
    (Checked /\ last.node.kind \in PolicyKinds /\ BothAlways(last.node.kind))
    => /\ last.scopeBefore = FreshRecord
          => /\ last.only = "true"
             /\ ScopeAfter.uninitialized = HasDeclarator(last.node.declarations, "U")
             /\ ScopeAfter.initialized = (\/ HasDeclarator(last.node.declarations, "I")
                                          \/ HasDeclarator(last.node.declarations, "R"))
       /\ (last.seenBefore /\ ~someIsRequire(last.node.declarations))
          => ScopeAfter = last.scopeBefore

\* C5: under ALWAYS/ALWAYS a statement checked on a fresh record is no
\* violation and leaves `uninitialized` set exactly when it holds a
\* declarator without initializer, `initialized` exactly when it holds an
\* initialized declarator that is not a require call counted apart, and
\* `required` exactly when separateRequires is on and it holds a require
\* call; a require-free statement checked on a record with `initialized` or
\* `uninitialized` set is a violation and writes nothing, and one checked
\* on a record with `required` alone set is no violation and writes its
\* flags.
C5_FirstStatement ==
    (Checked /\ last.node.kind \in PolicyKinds /\ BothAlways(last.node.kind))
    => /\ last.scopeBefore = FreshRecord
          => /\ last.only = "true"
             /\ ScopeAfter.uninitialized = HasDeclarator(last.node.declarations, "U")
             /\ ScopeAfter.initialized =
                   (\/ HasDeclarator(last.node.declarations, "I")
                    \/ (~options.separateRequires
                        /\ HasDeclarator(last.node.declarations, "R")))
             /\ ScopeAfter.required =
                   (options.separateRequires /\ HasDeclarator(last.node.declarations, "R"))
       /\ (/\ (last.scopeBefore.initialized \/ last.scopeBefore.uninitialized)
           /\ ~someIsRequire(last.node.declarations))
          => (last.only = "false" /\ ScopeAfter = last.scopeBefore)
       /\ (/\ last.scopeBefore = [FreshRecord EXCEPT !.required = TRUE]
           /\ ~someIsRequire(last.node.declarations))
          => /\ last.only = "true"
             /\ ScopeAfter = [initialized |-> HasDeclarator(last.node.declarations, "I"),
                              uninitialized |-> HasDeclarator(last.node.declarations, "U"),
                              required |-> TRUE]

C5_Witness ==
    /\ Checked
    /\ last.node.kind = "let"
    /\ BothAlways(last.node.kind)
    /\ options.separateRequires
    /\ last.scopeBefore = FreshRecord
    /\ last.node.declarations = <<"R", "U">>
    /\ ScopeAfter = [initialized |-> FALSE, uninitialized |-> TRUE, required |-> TRUE]

\* The open regions of a class of region types.
Open(types) == {i \in 1..Len(path) : path[i].type \in types}

\* C6: during the walk functionStack holds one record per open
\* function-like region and blockStack one per open function-like region
\* plus one per open block-like region; both are non-empty when a
\* declaration is checked and both are empty after "Program:exit".
C6_StackDepths ==
    /\ pc = "walking"
       => /\ Len(functionStack) = Cardinality(Open(FunctionLike))
          /\ Len(blockStack) = Cardinality(Open(FunctionLike)) + Cardinality(Open(BlockLike))
    /\ Checked => (Len(functionStack) > 0 /\ Len(blockStack) > 0)
    /\ pc = "done" => (functionStack = <<>> /\ blockStack = <<>>)
    /\ pc \in {"new", "created"} => (functionStack = <<>> /\ blockStack = <<>>)

\* A declaration checked in a block in a function in the program.
C6_Witness ==
    /\ Checked
    /\ Len(path) = MaxDepth + 1
    /\ Cardinality(Open(FunctionLike)) = 2
    /\ Len(functionStack) = 2
    /\ Len(blockStack) = 3

\* C7: at the exit of a function-like region both stacks are what they
\* were just before the region was entered; at the exit of a block-like
\* region blockStack is what it was just before the block was entered.
C7_RecordsRestored ==
    last.event = "exit"
    => /\ blockStack = last.saved.blockStack
       /\ last.region \in FunctionLike => functionStack = last.saved.functionStack

\* The exit of a static block in which a `var` and a `let` were recorded.
C7_Witness ==
    /\ last.event = "exit"
    /\ last.region = "StaticBlock"
    /\ last.before.functionStack[Len(last.before.functionStack)].initialized
    /\ last.before.blockStack[Len(last.before.blockStack)].let.uninitialized
    /\ Stacks = last.saved

\* C8 as stated: a statement whose parent is no statement list has a null
\* fix on every diagnostic of the NEVER check. It does not hold for an
\* exported declaration.
C8_AsStated ==
    (Checked /\ last.node.parentType \notin STATEMENT_LIST_PARENTS)
    => \A i \in 1..Len(last.diags) :
          last.diags[i].check = "never" => last.diags[i].fix = "null"

\* C8: a diagnostic of the NEVER check carries a split fix when the
\* statement sits in a statement list, or is exported by a named export
\* that sits in one, and a null fix in every other place.
C8_SplitVeto ==
    Checked
    => \A i \in 1..Len(last.diags) :
          last.diags[i].check = "never"
          => last.diags[i].fix =
                IF \/ last.node.parentType \in STATEMENT_LIST_PARENTS
                   \/ /\ last.node.parentType = "ExportNamedDeclaration"
                      /\ last.node.grandparentType \in STATEMENT_LIST_PARENTS
                THEN "split" ELSE "null"

\* `if (x) var a, b;` under "never".
C8_Witness ==
    /\ Checked
    /\ last.node.parentType = "IfStatement"
    /\ \E i \in 1..Len(last.diags) :
          last.diags[i] = Diag("split", "never", "null")

\* The per-kind field of an object option.
KindField(o, k) == CASE k = "var" -> o.var [] k = "let" -> o.let [] OTHER -> o.const

\* C9: no option gives "always" to both buckets of the three kinds, a
\* string its mode; an object gives a kind its per-kind value in both
\* buckets unless `initialized` / `uninitialized` is present, which then
\* gives that bucket of every kind its value; separateRequires is on only
\* when the object sets it to a truthy value.
C9_EffectivePolicy ==
    pc = "created"
    => /\ \A k \in PolicyKinds :
             /\ options.kinds[k].initialized =
                   CASE mode.shape = "none" -> MODE_ALWAYS
                     [] mode.shape = "string" -> mode.str
                     [] OTHER -> IF mode.hasInitialized THEN mode.initialized
                                 ELSE KindField(mode, k)
             /\ options.kinds[k].uninitialized =
                   CASE mode.shape = "none" -> MODE_ALWAYS
                     [] mode.shape = "string" -> mode.str
                     [] OTHER -> IF mode.hasUninitialized THEN mode.uninitialized
                                 ELSE KindField(mode, k)
       /\ options.separateRequires = (mode.shape = "object" /\ mode.separateRequires = "true")

\* { var: "always", initialized: "never" }.
C9_Witness ==
    /\ pc = "created"
    /\ mode.shape = "object"
    /\ mode.var = MODE_ALWAYS
    /\ mode.hasInitialized /\ mode.initialized = MODE_NEVER
    /\ ~mode.hasUninitialized
    /\ options.kinds["var"] = [uninitialized |-> MODE_ALWAYS, initialized |-> MODE_NEVER]

Tokens(text) == SelectSeq(text, IsToken)

\* Whether a text is a list of declaration statements: each a keyword and
\* declarators between commas, ended by a semicolon or by the end of a line.
WellFormed(text) ==
    LET tokens == Tokens(text)
        next(i) == IF i = Len(tokens) THEN "end" ELSE tokens[i + 1]
        starts == Keywords \cup {"export"}
    IN /\ Len(tokens) > 0
       /\ tokens[1] \in starts
       /\ \A i \in 1..Len(tokens) :
             CASE tokens[i] = "export" -> next(i) \in Keywords
               [] tokens[i] \in Keywords -> IsName(next(i))
               [] tokens[i] = "," -> IsName(next(i))
               [] tokens[i] = ";" -> next(i) \in starts \cup {"end"}
               [] OTHER -> /\ IsName(tokens[i])
                           /\ next(i) \in starts \cup {",", ";", "end"}
       /\ \A i \in 1..Len(text) :
             LET t == getTokenAfter(text, i, FALSE)
             IN (IsName(text[i]) /\ t > 0 /\ text[t] \in starts)
                => \E n \in (i + 1)..(t - 1) : text[n] = "\n"

CommentFree(text) == \A i \in 1..Len(text) : text[i] \notin Comments

\* The statements before any fix.
Original == Parse(start)

\* One statement per declarator of a statement.
Singles(statement) ==
    [d \in 1..Len(statement.declarations) |->
        [statement EXCEPT !.declarations = <<statement.declarations[d]>>]]

\* A comment-free text on which the join fix of a statement that follows a
\* statement of its kind with one declarator was applied, and then the split
\* fix of the statement before it, the merged one.
C10_JoinThenSplit ==
    /\ Len(applied) = 2
    /\ applied[1].fix = "join"
    /\ applied[2].fix = "split"
    /\ applied[2].index = applied[1].index - 1
    /\ CommentFree(start)
    /\ Original[applied[1].index - 1].kind = Original[applied[1].index].kind
    /\ Len(Original[applied[1].index - 1].declarations) = 1

\* A comment-free text on which the split fix of a statement was applied,
\* and then the join fix of each statement the split made.
C10_SplitThenJoin ==
    /\ Len(applied) >= 2
    /\ applied[1].fix = "split"
    /\ ~applied[1].null
    /\ Len(applied) = Len(Original[applied[1].index].declarations)
    /\ \A k \in 2..Len(applied) :
          applied[k].fix = "join" /\ applied[k].index = applied[1].index + 1
    /\ CommentFree(start)

\* C10 as stated: either way round the statements are the original ones. It
\* does not hold: the split fix splits every declarator of the merged
\* statement, and the join fix does nothing in a switch case or on an
\* exported declaration.
C10_AsStated ==
    (C10_JoinThenSplit \/ C10_SplitThenJoin) => Parse(source) = Original

\* C10: after join then split the two statements have become one statement
\* per declarator, which are the original statements when the second had one
\* declarator too; after split then join the statements are the original
\* ones in the body of a program, a block or a static block, if the
\* statement is not exported, and stay split in a switch case or if the
\* statement is exported. The text stays a list of declaration statements.
C10_RoundTrip ==
    /\ C10_JoinThenSplit
       => LET j == applied[1].index
          IN /\ WellFormed(source)
             /\ container \in BodyArrayParents
             /\ Parse(source) = SubSeq(Original, 1, j - 2)
                                \o Singles(Original[j - 1]) \o Singles(Original[j])
                                \o SubSeq(Original, j + 1, Len(Original))
             /\ Len(Original[j].declarations) = 1 => Parse(source) = Original
    /\ C10_SplitThenJoin
       => LET i == applied[1].index
          IN /\ WellFormed(source)
             /\ Parse(source) =
                   IF container \in BodyArrayParents /\ ~Original[i].export
                   THEN Original
                   ELSE SubSeq(Original, 1, i - 1) \o Singles(Original[i])
                        \o SubSeq(Original, i + 1, Len(Original))

\* `let a\nlet b` in a block, joined and split again: `let a;\n let b`.
C10_Witness ==
    /\ C10_JoinThenSplit
    /\ container = "BlockStatement"
    /\ Len(Original[applied[1].index].declarations) = 1
    /\ Parse(source) = Original
    /\ source # start

IsComment(x) == x \in Comments

\* Where a declarator stands in a text (0: nowhere).
PositionOf(text, name) ==
    IF \E i \in 1..Len(text) : text[i] = name
    THEN CHOOSE i \in 1..Len(text) : text[i] = name
    ELSE 0

\* The comments between two declarators of a text, in order.
CommentsBetween(text, n, m) ==
    SelectSeq(SubSeq(text, PositionOf(text, n) + 1, PositionOf(text, m) - 1), IsComment)

\* The split fix of a statement was applied to the text, and nothing else.
SplitApplied ==
    /\ Len(applied) = 1
    /\ applied[1].fix = "split"
    /\ ~applied[1].null

\* C11: after the split fix of a statement every comment that stood
\* between a comma and the next declarator stands between the same two
\* declarators, with its text, in the same order, and the comments of the
\* whole text are the same in the same order; the text is still a list of
\* declaration statements, one per declarator of the statement split.
C11_CommentsKept ==
    SplitApplied
    => /\ \A n \in 1..(Len(Names) - 1) :
             (PositionOf(start, Names[n]) > 0 /\ PositionOf(start, Names[n + 1]) > 0)
             => /\ PositionOf(source, Names[n]) > 0
                /\ PositionOf(source, Names[n + 1]) > 0
                /\ CommentsBetween(source, Names[n], Names[n + 1])
                   = CommentsBetween(start, Names[n], Names[n + 1])
       /\ SelectSeq(source, IsComment) = SelectSeq(start, IsComment)
       /\ WellFormed(source)
       /\ Parse(source) = SubSeq(Original, 1, applied[1].index - 1)
                          \o Singles(Original[applied[1].index])
                          \o SubSeq(Original, applied[1].index + 1, Len(Original))

\* `var a, /*c*/ //c\n b` split: `var a; /*c*/ //c\n var b`.
C11_Witness ==
    /\ SplitApplied
    /\ CommentsBetween(start, Names[1], Names[2]) = <<"/*c*/", "//c">>
    /\ CommentsBetween(source, Names[1], Names[2]) = <<"/*c*/", "//c">>
    /\ Len(Parse(source)) = Len(Original) + 1

\* The messageIds of the last check's diagnostics that belong to a family,
\* in the order reported.
IdsOf(ids) ==
    LET InFamily(d) == d.messageId \in ids
        reported == SelectSeq(last.diags, InFamily)
    IN [i \in 1..Len(reported) |-> reported[i].messageId]

ForInit == last.node.parentType = "ForStatement" /\ last.node.role = "init"

HasInitialized(declarations) ==
    \E i \in 1..Len(declarations) : declarations[i] # "U"

\* C12: a checked statement gets at most one split-family diagnostic, and
\* that from the never check; a statement of one declarator and the init of
\* a for statement get none; any other statement gets "split" when both
\* modes of its kind are "never", else splitInitialized exactly when the
\* initialized mode is "never" and a declarator has an initializer, else
\* splitUninitialized exactly when the uninitialized mode is "never" and a
\* declarator has none.
C12_NeverCheck ==
    (Checked /\ last.node.kind \in PolicyKinds) =>
        LET policy == options.kinds[last.node.kind]
            declarations == last.node.declarations
        IN /\ \A i \in 1..Len(last.diags) :
                 last.diags[i].messageId \in SplitFamily <=> last.diags[i].check = "never"
           /\ IdsOf(SplitFamily) =
                 IF Len(declarations) <= 1 \/ ForInit THEN <<>>
                 ELSE IF policy.initialized = MODE_NEVER /\ policy.uninitialized = MODE_NEVER
                      THEN <<"split">>
                 ELSE IF policy.initialized = MODE_NEVER /\ HasInitialized(declarations)
                      THEN <<"splitInitialized">>
                 ELSE IF policy.uninitialized = MODE_NEVER /\ HasDeclarator(declarations, "U")
                      THEN <<"splitUninitialized">>
                 ELSE <<>>

\* A statement of an uninitialized and an initialized declarator where only
\* the initialized mode is "never": one splitInitialized.
C12_Witness ==
    /\ Checked
    /\ last.node.kind = "var"
    /\ options.kinds["var"].initialized = MODE_NEVER
    /\ options.kinds["var"].uninitialized = MODE_ALWAYS
    /\ ~ForInit
    /\ last.node.declarations = <<"U", "I">>
    /\ IdsOf(SplitFamily) = <<"splitInitialized">>

\* The checked statement follows, in a statement list, a declaration of its
\* kind, and the declarators of the two are all calls of `require` or none.
AfterSameKind ==
    /\ last.node.role = "list"
    /\ last.node.prev.type = "VariableDeclaration"
    /\ last.node.prev.kind = last.node.kind
    /\ ~Mixed(last.node.declarations \o last.node.prev.declarations)

\* What the priority of the consecutive check gives for the checked
\* statement and the one before it.
ConsecutiveOutcome ==
    LET policy == options.kinds[last.node.kind]
        declarations == last.node.declarations
        previous == last.node.prev.declarations
    IN IF policy.initialized = MODE_CONSECUTIVE /\ policy.uninitialized = MODE_CONSECUTIVE
       THEN <<"combine">>
       ELSE IF /\ policy.initialized = MODE_CONSECUTIVE
               /\ HasInitialized(declarations) /\ HasInitialized(previous)
       THEN <<"combineInitialized">>
       ELSE IF /\ policy.uninitialized = MODE_CONSECUTIVE
               /\ HasDeclarator(declarations, "U") /\ HasDeclarator(previous, "U")
       THEN <<"combineUninitialized">>
       ELSE <<>>

\* The messageIds the consecutive check reported for the checked statement.
ConsecutiveIds ==
    LET FromCheck(d) == d.check = "consecutive"
        reported == SelectSeq(last.diags, FromCheck)
    IN [i \in 1..Len(reported) |-> reported[i].messageId]

\* C13 as stated: whenever a statement follows a declaration of its kind in
\* its parent's statement list, and the two do not mix calls of `require`
\* with other declarators, the consecutive check reports what the priority
\* gives. It does not hold in the statement list of a switch case.
C13_AsStated ==
    (Checked /\ last.node.kind \in PolicyKinds /\ AfterSameKind) =>
        ConsecutiveIds = ConsecutiveOutcome

\* C13: the consecutive check reports at most one diagnostic, and none
\* unless the statement follows, in the body of a program, a block or a
\* static block, a declaration of its kind and the declarators of the two
\* are all calls of `require` or none; then it reports what the priority
\* gives (both modes "consecutive": combine; else initialized mode
\* "consecutive" and both with an initialized declarator:
\* combineInitialized; else uninitialized mode "consecutive" and both with
\* an uninitialized declarator: combineUninitialized). In the statement
\* list of a switch case it reports nothing.
C13_ConsecutiveCheck ==
    (Checked /\ last.node.kind \in PolicyKinds) =>
        /\ Len(ConsecutiveIds) <= 1
        /\ ConsecutiveIds =
              IF AfterSameKind /\ last.node.parentType # "SwitchCase"
              THEN ConsecutiveOutcome
              ELSE <<>>

\* In a block, a statement of an initialized declarator after one of an
\* initialized and an uninitialized declarator, where only the initialized
\* mode is "consecutive": one combineInitialized from the consecutive check.
C13_Witness ==
    /\ Checked
    /\ last.node.kind = "let"
    /\ last.node.parentType = "BlockStatement"
    /\ AfterSameKind
    /\ options.kinds["let"].initialized = MODE_CONSECUTIVE
    /\ options.kinds["let"].uninitialized # MODE_CONSECUTIVE
    /\ last.node.prev.declarations = <<"U", "I">>
    /\ ConsecutiveIds = <<"combineInitialized">>

\* Both modes of the checked statement's kind are ALWAYS and the record of
\* its scope had a flag of an earlier statement set before the check.
C14_Case ==
    /\ Checked
    /\ last.node.kind \in PolicyKinds
    /\ BothAlways(last.node.kind)
    /\ (last.scopeBefore.initialized \/ last.scopeBefore.uninitialized)

\* C14 as stated: in that case every statement whose declarators are not
\* all calls of `require` is scored a violation. It does not hold: one call
\* of `require` among the declarators is enough for the exemption.
C14_AsStated ==
    (C14_Case /\ ~everyIsRequire(last.node.declarations)) => last.only = "false"

\* C14: with both modes ALWAYS and a flag of the record set, a statement
\* none of whose declarators is a call of `require` is scored a violation;
\* a statement with a call of `require`, alone or next to other
\* declarators, is a violation exactly when it has an uninitialized
\* declarator and the record's uninitialized flag is set, or the record's
\* required flag is set.
C14_RequireExempts ==
    C14_Case =>
        IF someIsRequire(last.node.declarations)
        THEN last.only = "false" <=>
                \/ /\ HasDeclarator(last.node.declarations, "U")
                   /\ last.scopeBefore.uninitialized
                \/ last.scopeBefore.required
        ELSE last.only = "false"

\* After a statement with an initializer, a statement of an ordinary
\* initializer and a call of `require` is no violation.
C14_Witness ==
    /\ C14_Case
    /\ last.scopeBefore.initialized
    /\ last.node.declarations = <<"I", "R">>
    /\ last.only = "true"
    /\ ~Reported("always", CombineFamily)

\* A declarator list, and a statement, with every call of `require`
\* replaced by an ordinary initializer.
PlainDeclarations(declarations) ==
    [i \in 1..Len(declarations) |-> IF declarations[i] = "R" THEN "I" ELSE declarations[i]]

PlainNode(node) ==
    [node EXCEPT !.declarations = PlainDeclarations(@),
                 !.prev.declarations = PlainDeclarations(@)]

\* The checked statement is the second declaration of the program, right
\* after the first, which holds no call of `require`: the program with the
\* calls of `require` replaced reaches this check with the same records.
SecondAfterPlain ==
    /\ Checked
    /\ budget = MaxStatements - 2
    /\ last.node.prev.type = "VariableDeclaration"
    /\ ~someIsRequire(last.node.prev.declarations)

\* C15 as stated, for the first statement of a program that holds a call of
\* `require`: without separateRequires the statement is reported as the
\* same statement with ordinary initializers is. It does not hold.
C15_AsStated ==
    (SecondAfterPlain /\ ~options.separateRequires) =>
        last.diags = checkVariableDeclaration(options, PlainNode(last.node), last.before).diags

\* A statement with a call of `require` is checked under separateRequires
\* with the initialized mode of its kind ALWAYS.
C16_Case ==
    /\ Checked
    /\ last.node.kind \in PolicyKinds
    /\ options.separateRequires
    /\ options.kinds[last.node.kind].initialized = MODE_ALWAYS
    /\ someIsRequire(last.node.declarations)

\* The statement checked before this one is the first declaration of the
\* program, of the same kind, in the same statement list, with a call of
\* `require`. It was checked on fresh records, so it was no violation.
AfterFirstRequire ==
    /\ budget = MaxStatements - 2
    /\ last.node.role = "list"
    /\ last.node.prev.type = "VariableDeclaration"
    /\ last.node.prev.kind = last.node.kind
    /\ someIsRequire(last.node.prev.declarations)

\* C16: under separateRequires and initialized mode ALWAYS, a statement
\* with a call of `require` that is no violation sets the `required` flag of
\* its scope's record, which was not set; once the flag is set, and so for
\* the statement after a first such statement, a statement with a call of
\* `require` is a violation and the always check reports it with a
\* diagnostic of the combine family.
C16_OneRequireStatement ==
    C16_Case =>
        /\ last.only = "true" => (~last.scopeBefore.required /\ ScopeAfter.required)
        /\ (last.scopeBefore.required \/ AfterFirstRequire) =>
              /\ last.only = "false"
              /\ Reported("always", CombineFamily)

\* The second of two adjacent statements with a call of `require` is a
\* violation, reported with combine (an option that sets separateRequires
\* gives both modes of a kind the same value).
C16_Witness ==
    /\ C16_Case
    /\ AfterFirstRequire
    /\ everyIsRequire(last.node.declarations)
    /\ last.scopeBefore.required
    /\ ~last.scopeBefore.initialized
    /\ last.only = "false"
    /\ Reported("always", {"combine"})

\* The messageIds the always check reported for the checked statement.
AlwaysIds ==
    LET FromCheck(d) == d.check = "always"
        reported == SelectSeq(last.diags, FromCheck)
    IN [i \in 1..Len(reported) |-> reported[i].messageId]

\* hasOnlyOneStatement scored the checked statement a violation.
Violation == Checked /\ last.node.kind \in PolicyKinds /\ last.only = "false"

\* The diagnostic the claim gives to a violation: combine under both modes
\* ALWAYS, else the one of the mode that is ALWAYS.
ViolationId ==
    IF BothAlways(last.node.kind) THEN "combine"
    ELSE IF options.kinds[last.node.kind].initialized = MODE_ALWAYS
    THEN "combineInitialized"
    ELSE "combineUninitialized"

ForInOfLeft ==
    /\ last.node.role = "left"
    /\ last.node.parentType \in {"ForInStatement", "ForOfStatement"}

\* C17 as stated: a violation gets exactly one diagnostic of the always
\* check, at every position. It does not hold for the left side of a for-in
\* or for-of when only the uninitialized mode is ALWAYS.
C17_AsStated ==
    Violation => AlwaysIds = <<ViolationId>>

\* C17: a violation gets exactly one diagnostic of the always check,
\* combine under both modes ALWAYS, else combineInitialized or
\* combineUninitialized for the bucket whose mode is ALWAYS and which the
\* statement violated; but the left side of a for-in or for-of gets none
\* when only the uninitialized mode is ALWAYS. A statement that is no
\* violation gets none.
C17_OneDiagnostic ==
    (Checked /\ last.node.kind \in PolicyKinds) =>
        /\ Violation =>
              /\ AlwaysIds = IF ForInOfLeft /\ ViolationId = "combineUninitialized"
                             THEN <<>>
                             ELSE <<ViolationId>>
              /\ ViolationId = "combineInitialized" => HasInitialized(last.node.declarations)
              /\ ViolationId = "combineUninitialized" =>
                    HasDeclarator(last.node.declarations, "U")
        /\ ~Violation => AlwaysIds = <<>>

\* The left side of a for-in or for-of that is a violation under both modes
\* ALWAYS: one combine.
C17_Witness ==
    /\ Violation
    /\ ForInOfLeft
    /\ BothAlways(last.node.kind)
    /\ AlwaysIds = <<"combine">>

\* The records that differ between the stacks before the last check and
\* the stacks after it: <<stack, index, field>>, as getCurrentScopeRef
\* names them.
ChangedRecords ==
    {<<"function", i, "">> : i \in {j \in 1..Len(functionStack) :
                                      functionStack[j] # last.before.functionStack[j]}}
    \cup {<<"block", i, "let">> : i \in {j \in 1..Len(blockStack) :
                                           blockStack[j].let # last.before.blockStack[j].let}}
    \cup {<<"block", i, "const">> : i \in {j \in 1..Len(blockStack) :
                                             blockStack[j].const # last.before.blockStack[j].const}}

\* The record of a kind's current scope: the top function record for var,
\* the kind's field of the top block record for let and const.
CurrentRecord(kind) ==
    IF kind = "var"
    THEN <<"function", Len(functionStack), "">>
    ELSE <<"block", Len(blockStack), kind>>

\* C18: a check pushes and pops nothing; a statement scored a violation
\* leaves every record of both stacks as it was; a statement scored no
\* violation changes at most the current record of its kind.
C18_FrameEffect ==
    (Checked /\ last.node.kind \in PolicyKinds) =>
        /\ Len(functionStack) = Len(last.before.functionStack)
        /\ Len(blockStack) = Len(last.before.blockStack)
        /\ last.only = "false" => ChangedRecords = {}
        /\ last.only = "true" => ChangedRecords \subseteq {CurrentRecord(last.node.kind)}

\* A `let` in a nested block, after a `let` of the enclosing block set that
\* block's record: only the `let` record of the nested block changes.
C18_Witness ==
    /\ Checked
    /\ last.node.kind = "let"
    /\ last.only = "true"
    /\ Len(blockStack) = 2
    /\ blockStack[1].let.initialized
    /\ ChangedRecords = {<<"block", 2, "let">>}

\* The flags of a record of a kind are allowed by the policy of the kind.
FlagsAllowed(record, kind) ==
    /\ record.initialized => options.kinds[kind].initialized = MODE_ALWAYS
    /\ record.uninitialized => options.kinds[kind].uninitialized = MODE_ALWAYS
    /\ record.required =>
          (options.separateRequires /\ options.kinds[kind].initialized = MODE_ALWAYS)

\* Every record of both stacks carries only flags its kind's policy allows.
AllFlagsAllowed ==
    /\ \A i \in 1..Len(functionStack) : FlagsAllowed(functionStack[i], "var")
    /\ \A i \in 1..Len(blockStack) :
          /\ FlagsAllowed(blockStack[i].let, "let")
          /\ FlagsAllowed(blockStack[i].const, "const")

\* The flags set in a record stay set in another.
KeepsFlags(before, after) ==
    /\ before.initialized => after.initialized
    /\ before.uninitialized => after.uninitialized
    /\ before.required => after.required

\* A step pushes records, pops records or does neither, so a record at an
\* index of both the old and the new stack is the same record: its flags
\* stay set.
FlagsKept ==
    /\ \A i \in 1..Len(functionStack) :
          i <= Len(functionStack') => KeepsFlags(functionStack[i], functionStack'[i])
    /\ \A i \in 1..Len(blockStack) :
          i <= Len(blockStack') =>
              /\ KeepsFlags(blockStack[i].let, blockStack'[i].let)
              /\ KeepsFlags(blockStack[i].const, blockStack'[i].const)

\* C19: in every reachable state a record's initialized flag is set only
\* if the initialized mode of its kind is ALWAYS, its uninitialized flag
\* only if the uninitialized mode is ALWAYS, its required flag only if
\* separateRequires is set and the initialized mode is ALWAYS; and no step
\* clears a flag of a record that stays on its stack.
C19_Flags ==
    []AllFlagsAllowed /\ [][FlagsKept]_vars

\* Where only the uninitialized mode is ALWAYS, a statement with an
\* initializer is checked after one without: the record keeps its
\* uninitialized flag and gets no initialized flag.
C19_Witness ==
    /\ Checked
    /\ last.node.kind = "var"
    /\ options.kinds["var"].uninitialized = MODE_ALWAYS
    /\ options.kinds["var"].initialized # MODE_ALWAYS
    /\ last.node.declarations = <<"I">>
    /\ last.only = "true"
    /\ last.scopeBefore.uninitialized
    /\ ScopeAfter = [initialized |-> FALSE, uninitialized |-> TRUE, required |-> FALSE]

\* The option is "always", given or by default.
UniformAlways ==
    \/ mode.shape = "none"
    \/ mode.shape = "string" /\ mode.str = MODE_ALWAYS

\* C20 as stated: under uniform ALWAYS a `var` statement in a block, a loop
\* or a switch is reported with combine when a `var` statement was checked
\* before it anywhere in the function; a `let` or a `const` statement is
\* reported with a combine diagnostic only when a statement of its kind was
\* checked before it in the same innermost region, so not for one of an
\* enclosing region. It does not hold for a `var` statement with a call of
\* `require`.
C20_AsStated ==
    (Checked /\ UniformAlways /\ last.node.kind \in PolicyKinds) =>
        IF last.node.kind = "var"
        THEN (Top.type \in BlockLike /\ last.seenBefore) =>
                 Reported("always", {"combine"})
        ELSE Reported("always", CombineFamily) <=> last.seenBefore

\* A `var` statement with a call of `require`, in a nested block, after a
\* `var` statement of the function: not reported.
C20_Witness ==
    /\ Checked
    /\ UniformAlways
    /\ last.node.kind = "var"
    /\ Top.type = "BlockStatement"
    /\ last.seenBefore
    /\ someIsRequire(last.node.declarations)
    /\ last.diags = <<>>

\* A statement is checked where the initialized mode of its kind is ALWAYS
\* and the uninitialized mode is CONSECUTIVE.
C21_Case ==
    /\ Checked
    /\ last.node.kind \in PolicyKinds
    /\ options.kinds[last.node.kind].initialized = MODE_ALWAYS
    /\ options.kinds[last.node.kind].uninitialized = MODE_CONSECUTIVE

\* C21: with initialized mode ALWAYS and uninitialized mode CONSECUTIVE the
\* consecutive check reports at most one diagnostic, combineUninitialized,
\* the always check at most one, combineInitialized, and the combine-family
\* diagnostics of the statement are those of the one check followed by
\* those of the other: the second is reported whether or not the first was.
C21_NotDeduplicated ==
    C21_Case =>
        /\ ConsecutiveIds \in {<<>>, <<"combineUninitialized">>}
        /\ AlwaysIds = IF Violation THEN <<"combineInitialized">> ELSE <<>>
        /\ IdsOf(CombineFamily) = ConsecutiveIds \o AlwaysIds

\* One statement with both: combineUninitialized from the consecutive
\* check, then combineInitialized from the always check.
C21_Witness ==
    /\ C21_Case
    /\ Len(last.diags) = 2
    /\ last.diags[1].messageId = "combineUninitialized"
    /\ last.diags[1].check = "consecutive"
    /\ last.diags[2].messageId = "combineInitialized"
    /\ last.diags[2].check = "always"

\* The checked statement follows a declaration of its kind in a statement
\* list.
AfterSiblingOfKind ==
    /\ last.node.role = "list"
    /\ last.node.prev.type = "VariableDeclaration"
    /\ last.node.prev.kind = last.node.kind

\* C22 as stated: a statement reported with a combine-family diagnostic, by
\* the consecutive check or the always check, follows a declaration of its
\* kind and its join fix yields edits. It does not hold for the always
\* check, which looks at the scope and not at the sibling.
C22_AsStated ==
    (Checked /\ (Reported("consecutive", CombineFamily) \/ Reported("always", CombineFamily))) =>
        (AfterSiblingOfKind /\ joinEdits(last.node) > 0)

\* C22: a statement the consecutive check reports follows a declaration of
\* its kind and its join fix yields two edits; a statement the always check
\* reports has a join fix of two edits when it follows a declaration of its
\* kind in the body of a program, a block or a static block, and of no edit
\* anywhere else.
C22_JoinEdits ==
    Checked =>
        /\ Reported("consecutive", CombineFamily) =>
              (AfterSiblingOfKind /\ joinEdits(last.node) = 2)
        /\ Reported("always", CombineFamily) =>
              joinEdits(last.node) =
                 IF AfterSiblingOfKind /\ last.node.parentType # "SwitchCase" THEN 2 ELSE 0

\* A `var` statement at the start of a nested block, reported by the always
\* check because of a `var` statement of the function: its join fix yields
\* no edit.
C22_Witness ==
    /\ Checked
    /\ last.node.kind = "var"
    /\ last.node.parentType = "BlockStatement"
    /\ last.node.prev.type = "none"
    /\ Reported("always", {"combine"})
    /\ joinEdits(last.node) = 0

\* The commas of the j-th statement of a text.
CommasOf(text, j) ==
    {i \in KeywordOf(text, j)..EndOf(text, j) : text[i] = ","}

\* The tokens of a replacement text, without white space and comments.
TokensOf(text) == SelectSeq(text, IsToken)

\* C23: the split fix of a statement of n declarators in a statement list
\* yields n - 1 edits, one at each of the statement's commas; each puts in
\* the comma's place a semicolon and, after the white space and comments it
\* keeps, the statement's keyword, with `export` before the keyword exactly
\* when a named export wraps the statement.
C23_SplitEdits ==
    SplitApplied =>
        LET j == applied[1].index
            edits == applied[1].edits
            keyword == start[KeywordOf(start, j)]
        IN /\ Len(edits) = Cardinality(DeclaratorsOf(start, j)) - 1
           /\ {edits[e].from : e \in 1..Len(edits)} = CommasOf(start, j)
           /\ \A e \in 1..Len(edits) :
                 /\ \A f \in 1..Len(edits) : edits[f].from = edits[e].from => f = e
                 /\ TokensOf(edits[e].text) =
                       IF IsExported(start, j)
                       THEN <<";", "export", keyword>>
                       ELSE <<";", keyword>>

\* An exported statement of three declarators, followed by another
\* statement: two edits, each with `export`.
C23_Witness ==
    /\ SplitApplied
    /\ IsExported(start, applied[1].index)
    /\ NumStatements(start) = 2
    /\ Cardinality(DeclaratorsOf(start, applied[1].index)) = 3
    /\ Len(applied[1].edits) = 2
    /\ TokensOf(applied[1].edits[2].text) = <<";", "export", "let">>

\* The checked statement's kind has no mode: it is none of var, let and
\* const, or the object option names neither the kind nor `initialized` or
\* `uninitialized`.
NoModeFor(kind) ==
    \/ kind \notin PolicyKinds
    \/ /\ mode.shape = "object"
       /\ KindField(mode, kind) = Undefined
       /\ ~mode.hasInitialized /\ ~mode.hasUninitialized

\* The object option names no kind.
NamesNoKind ==
    /\ mode.shape = "object"
    /\ mode.var = Undefined /\ mode.let = Undefined /\ mode.const = Undefined
    /\ ~mode.hasInitialized /\ ~mode.hasUninitialized

\* C24: a statement whose kind has no mode gets no diagnostic and its check
\* leaves the two stacks, and so every record, as they were; under an
\* object that names no kind this is every statement, and with
\* separateRequires false the policy is the one create() derives from the
\* object without any property.
C24_NoMode ==
    /\ (Checked /\ NoModeFor(last.node.kind)) =>
          /\ last.diags = <<>>
          /\ Stacks = last.before
    /\ (Checked /\ NamesNoKind) => last.diags = <<>>
    /\ (pc # "new" /\ NamesNoKind /\ mode.separateRequires = "false") =>
          options = DeriveOptions(EmptyObject)

\* A `let` statement of two declarators, one a call of `require`, after
\* another `let` statement, under { separateRequires: true, var: "always" }:
\* nothing is reported and the records are as before.
C24_Witness ==
    /\ Checked
    /\ mode.var = MODE_ALWAYS
    /\ mode.separateRequires = "true"
    /\ last.node.kind = "let"
    /\ last.seenBefore
    /\ last.node.declarations = <<"U", "R">>
    /\ last.only = "true"
    /\ last.diags = <<>>
    /\ Stacks = last.before

\* How often a node was reported, and how often a scope was checked.
ReportsOf(node) == Cardinality({i \in 1..Len(reports) : reports[i] = node})

ChecksOf(scope) == Cardinality({i \in 1..Len(checkedScopes) : checkedScopes[i] = scope})

\* The handler has returned; every scope was checked once; of a scope with
\* a variable named `undefined` every reference that does not initialize and
\* every definition was reported once and no initializing reference; every
\* reported node is one of these.
ExitDone ==
    exitPc = "done" =>
        /\ \A scope \in 1..scopeManager.n : ChecksOf(scope) = 1
        /\ Len(checkedScopes) = scopeManager.n
        /\ \A scope \in 1..scopeManager.n :
              LET undefinedVar == scopeManager.undefinedVar[scope]
              IN /\ \A k \in 1..Len(undefinedVar.references) :
                       ReportsOf(Identifier(scope, "reference", k)) =
                          IF undefinedVar.references[k] THEN 0 ELSE 1
                 /\ \A k \in 1..undefinedVar.defs :
                       ReportsOf(Identifier(scope, "definition", k)) = 1
        /\ \A i \in 1..Len(reports) :
              LET undefinedVar == scopeManager.undefinedVar[reports[i].scope]
              IN /\ undefinedVar.defined
                 /\ reports[i].index <= IF reports[i].role = "reference"
                                        THEN Len(undefinedVar.references)
                                        ELSE undefinedVar.defs

\* C25: the Program exit handler of no-undefined returns for every scope
\* tree; by then it has checked each scope of the tree once, has reported
\* each non-initializing reference and each definition of a scope's
\* `undefined` variable once, and has reported nothing else; no scope is
\* checked twice on the way.
C25_ExitHandler ==
    /\ <>(exitPc = "done")
    /\ []ExitDone
    /\ [](\A scope \in 1..scopeManager.n : ChecksOf(scope) <= 1)

\* The handler has returned on a tree of three scopes, the third inside the
\* second, whose variable has an initializing reference, another reference
\* and a definition: two reports, and none for the scopes without the
\* variable.
C25_Witness ==
    /\ exitPc = "done"
    /\ scopeManager.n = 3
    /\ scopeManager.parent[3] = 2
    /\ ~scopeManager.undefinedVar[1].defined
    /\ ~scopeManager.undefinedVar[2].defined
    /\ scopeManager.undefinedVar[3].references = <<TRUE, FALSE>>
    /\ scopeManager.undefinedVar[3].defs = 1
    /\ reports = <<Identifier(3, "reference", 2), Identifier(3, "definition", 1)>>

====
